---- MODULE Spec2Model ----
(***************************************************************************)
(* Model of the Emby -> Tautulli layer of Tautulli4Emby:                    *)
(* plexpy/embyconnect.py (EmbyConnect: construction, get_sessions,          *)
(* terminate_session, the three transform_* normalizers and                 *)
(* get_current_activity), plexpy/embyconnect_bridge.py (the bridge          *)
(* EmbyConnect, its configuration and query methods, and PmsConnect),       *)
(* plexpy/env_config.py (get_emby_config) and the transport                 *)
(* SimpleHTTPHandler.make_request of test_simple_emby_connect.py.           *)
(*                                                                         *)
(* JSON / Python values are tagged records [t |-> tag, v |-> payload]:     *)
(*   null (None), bool, int, str (a sequence of one-character strings),    *)
(*   list (a sequence of values), dict (a function from the keys that are  *)
(*   PRESENT to values; a missing key is missing from the DOMAIN).         *)
(* A call either returns a value or raises: Return(v) / Raise.             *)
(***************************************************************************)
EXTENDS Integers, Sequences, FiniteSets, TLC

VARIABLES op, arg, now, ret, prev, emby, requests, heap, callers

vars == <<op, arg, now, ret, prev, emby, requests, heap, callers>>

----------------------------------------------------------------------------
(* Bounds of the model *)

\* longest list of raw sessions one poll of GET /Sessions returns
MaxSessions == 3
\* longest MediaStreams list of a now-playing item
MaxStreams == 3
\* longest list of raw users or raw libraries one bridge query is handed
MaxRecords == 3
\* callers that run normalizers at the same time
MaxCallers == 2
\* helpers.timestamp() values: the clock reads 0..MaxClock
MaxClock == 1

\* ticks per millisecond (embyconnect.py:385)
TicksPerMs == 10000

----------------------------------------------------------------------------
(* Python values *)

Null == [t |-> "null"]
Absent == [t |-> "absent"]
BoolV(b) == [t |-> "bool", v |-> b]
IntV(n) == [t |-> "int", v |-> n]
StrV(s) == [t |-> "str", v |-> s]
ListV(xs) == [t |-> "list", v |-> xs]
\* a dict literal: the fields of r whose value is not Absent
MkDict(r) == [t |-> "dict", v |-> [k \in {j \in DOMAIN r : r[j].t # "absent"} |-> r[k]]]
EmptyDict == [t |-> "dict", v |-> [k \in {} |-> Null]]
\* d with key k set to x, or with key k removed when x is Absent
WithKey(d, k, x) ==
    [t |-> "dict",
     v |-> [j \in (IF x.t = "absent" THEN DOMAIN d.v \ {k} ELSE DOMAIN d.v \cup {k})
              |-> IF j = k THEN x ELSE d.v[j]]]

Return(x) == [kind |-> "return", val |-> x]
Raise == [kind |-> "raise"]
Pending == [kind |-> "pending"]

\* Python truth value of x (bool(x))
Truthy(x) ==
    CASE x.t = "null" -> FALSE
      [] x.t = "bool" -> x.v
      [] x.t = "int" -> x.v # 0
      [] x.t = "str" -> Len(x.v) > 0
      [] x.t = "list" -> Len(x.v) > 0
      [] x.t = "dict" -> DOMAIN x.v # {}
      [] OTHER -> FALSE

\* d.get(k, dflt) on a dict d
Get(d, k, dflt) == IF k \in DOMAIN d.v THEN d.v[k] ELSE dflt
\* d.get(k): the default is None
Get0(d, k) == Get(d, k, Null)

----------------------------------------------------------------------------
(* Strings: sequences of characters *)

UpperAlpha == <<"A","B","C","D","E","F","G","H","I","J","K","L","M",
                "N","O","P","Q","R","S","T","U","V","W","X","Y","Z">>
LowerAlpha == <<"a","b","c","d","e","f","g","h","i","j","k","l","m",
                "n","o","p","q","r","s","t","u","v","w","x","y","z">>
LowerChar(c) ==
    IF \E i \in DOMAIN UpperAlpha : UpperAlpha[i] = c
    THEN LowerAlpha[CHOOSE i \in DOMAIN UpperAlpha : UpperAlpha[i] = c]
    ELSE c
\* str.lower()
Lower(s) == [i \in DOMAIN s |-> LowerChar(s[i])]
\* str.replace(c, '') for a one-character c
RECURSIVE RemoveChar(_, _)
RemoveChar(s, c) ==
    IF s = <<>> THEN <<>>
    ELSE IF Head(s) = c THEN RemoveChar(Tail(s), c)
    ELSE <<Head(s)>> \o RemoveChar(Tail(s), c)
\* str.split(c)[0]: the part of s before the first c, all of s without one
RECURSIVE SplitFirst(_, _)
SplitFirst(s, c) ==
    IF s = <<>> THEN <<>>
    ELSE IF Head(s) = c THEN <<>>
    ELSE <<Head(s)>> \o SplitFirst(Tail(s), c)

Digits == <<"0","1","2","3","4","5","6","7","8","9">>
RECURSIVE NatToStr(_)
NatToStr(n) ==
    IF n < 10 THEN <<Digits[n + 1]>>
    ELSE NatToStr(n \div 10) \o <<Digits[(n % 10) + 1]>>
\* str(n) of an integer: decimal digits, "-" before a negative one
IntToStr(n) == IF n < 0 THEN <<"-">> \o NatToStr(-n) ELSE NatToStr(n)
\* format(n, "02d"): str(n) padded on the left with "0" to width 2
Format02d(n) ==
    IF n >= 0 /\ n < 10 THEN <<"0">> \o NatToStr(n) ELSE IntToStr(n)
\* str(x) / f"{x}" of a value
str_None == <<"N","o","n","e">>
str_True == <<"T","r","u","e">>
str_False == <<"F","a","l","s","e">>
ToStr(x) ==
    CASE x.t = "str" -> x.v
      [] x.t = "int" -> IntToStr(x.v)
      [] x.t = "bool" -> (IF x.v THEN str_True ELSE str_False)
      [] OTHER -> str_None

\* string literals of the source
str_empty == <<>>
str_paused == <<"p","a","u","s","e","d">>
str_playing == <<"p","l","a","y","i","n","g">>
str_direct_play == <<"d","i","r","e","c","t"," ","p","l","a","y">>
str_copy == <<"c","o","p","y">>
str_transcode == <<"t","r","a","n","s","c","o","d","e">>
str_DirectPlay == <<"D","i","r","e","c","t","P","l","a","y">>
str_DirectStream == <<"D","i","r","e","c","t","S","t","r","e","a","m">>
val_Transcode == <<"T","r","a","n","s","c","o","d","e">>
str_Video == <<"V","i","d","e","o">>
str_Audio == <<"A","u","d","i","o">>
str_Subtitle == <<"S","u","b","t","i","t","l","e">>
str_episode == <<"e","p","i","s","o","d","e">>
str_movie == <<"m","o","v","i","e">>
str_track == <<"t","r","a","c","k">>
str_photo == <<"p","h","o","t","o">>
str_channel == <<"c","h","a","n","n","e","l">>
str_program == <<"p","r","o","g","r","a","m">>
str_live == <<"l","i","v","e">>
str_clip == <<"c","l","i","p">>
str_sep == <<" ","-"," ">>
str_sep_s == <<" ","-"," ","s">>
str_e == <<"e">>
str_open == <<" ","(">>
str_close == <<")">>
str_items_prefix == <<"/","e","m","b","y","/","I","t","e","m","s","/">>
str_users_prefix == <<"/","e","m","b","y","/","U","s","e","r","s","/">>
str_images_primary == <<"/","I","m","a","g","e","s","/","P","r","i","m","a","r","y">>

----------------------------------------------------------------------------
(* Session Normalizer: EmbyConnect.transform_session_data *)

\* next((s for s in xs if ...), {}): the element of xs at the least index of
\* I, the indices of the elements that satisfy the condition; {} when I is empty
FirstAt(xs, I) ==
    IF I = {} THEN EmptyDict ELSE xs[CHOOSE i \in I : \A j \in I : i <= j]

\* int(q) of the true quotient q = ticks / TicksPerMs: truncation towards zero
\* (exact for |ticks| < 2^53, which covers the 32-bit values modelled here)
TruncDiv(n, d) == IF n >= 0 THEN n \div d ELSE -((-n) \div d)

\* a guard that forgets the NowPlayingItem test
is_inactive_no_item_test(emby_session) == ~Truthy(emby_session)

\* "not emby_session or not emby_session.get('NowPlayingItem')"
is_inactive(emby_session) ==
    ~Truthy(emby_session) \/ ~Truthy(Get0(emby_session, "NowPlayingItem"))

\* ticks_to_ms: "int(ticks / 10000) if ticks else 0", ticks an int or None
ticks_to_ms(ticks) == IF Truthy(ticks) THEN TruncDiv(ticks.v, TicksPerMs) ELSE 0

\* a classification that compares Type as it is spelled
get_media_type_case_sensitive(now_playing) ==
    LET item_type == Get(now_playing, "Type", StrV(str_empty)).v
    IN IF item_type = str_episode THEN str_episode
       ELSE IF item_type = str_movie THEN str_movie
       ELSE IF item_type = str_track THEN str_track
       ELSE IF item_type = str_photo THEN str_photo
       ELSE IF item_type \in {str_channel, str_program} THEN str_live
       ELSE str_clip

get_media_type(now_playing) ==
    LET item_type == Lower(Get(now_playing, "Type", StrV(str_empty)).v)
    IN IF item_type = str_episode THEN str_episode
       ELSE IF item_type = str_movie THEN str_movie
       ELSE IF item_type = str_track THEN str_track
       ELSE IF item_type = str_photo THEN str_photo
       ELSE IF item_type \in {str_channel, str_program} THEN str_live
       ELSE str_clip

\* a lookup whose default is not 'DirectPlay'
get_transcode_decision_default_none(play_state) ==
    LET play_method == Get0(play_state, "PlayMethod")
    IN IF play_method = StrV(str_DirectPlay) THEN str_direct_play
       ELSE IF play_method = StrV(str_DirectStream) THEN str_copy
       ELSE str_transcode

get_transcode_decision(play_state) ==
    LET play_method == Get(play_state, "PlayMethod", StrV(str_DirectPlay))
    IN IF play_method = StrV(str_DirectPlay) THEN str_direct_play
       ELSE IF play_method = StrV(str_DirectStream) THEN str_copy
       ELSE str_transcode

\* a decision that defaults an absent PlayMethod to 'DirectPlay'
stream_decision_default_direct_play(play_state) ==
    IF Get(play_state, "PlayMethod", StrV(str_DirectPlay)) = StrV(str_DirectPlay)
    THEN str_direct_play ELSE str_copy

\* "'direct play' if play_state.get('PlayMethod') == 'DirectPlay' else 'copy'"
stream_decision(play_state) ==
    IF Get0(play_state, "PlayMethod") = StrV(str_DirectPlay)
    THEN str_direct_play ELSE str_copy

\* a test for the presence of the IsPaused key instead of its truth
session_state_key_present(play_state) ==
    IF "IsPaused" \in DOMAIN play_state.v THEN str_paused ELSE str_playing

\* "'paused' if play_state.get('IsPaused') else 'playing'"
session_state(play_state) ==
    IF Truthy(Get0(play_state, "IsPaused")) THEN str_paused ELSE str_playing

\* "emby_session.get(key, '')"
session_field(emby_session, key) == Get(emby_session, key, StrV(str_empty))

\* an address taken from RemoteEndPoint without cutting the port off
ip_address_unsplit(emby_session) ==
    IF Truthy(Get0(emby_session, "RemoteEndPoint"))
    THEN Get(emby_session, "RemoteEndPoint", StrV(str_empty)).v
    ELSE str_empty

\* "...split(':')[0] if emby_session.get('RemoteEndPoint') else ''"
ip_address(emby_session) ==
    IF Truthy(Get0(emby_session, "RemoteEndPoint"))
    THEN SplitFirst(Get(emby_session, "RemoteEndPoint", StrV(str_empty)).v, ":")
    ELSE str_empty

\* "emby_session.get('Client', '').replace(' ', '').lower()"
platform(emby_session) ==
    Lower(RemoveChar(Get(emby_session, "Client", StrV(str_empty)).v, " "))

video_stream(media_streams) ==
    FirstAt(media_streams.v,
            {i \in DOMAIN media_streams.v :
                Get0(media_streams.v[i], "Type") = StrV(str_Video)})
\* an election that takes the first Audio stream, default or not
audio_stream_any(media_streams) ==
    FirstAt(media_streams.v,
            {i \in DOMAIN media_streams.v :
                Get0(media_streams.v[i], "Type") = StrV(str_Audio)})
audio_stream(media_streams) ==
    FirstAt(media_streams.v,
            {i \in DOMAIN media_streams.v :
                /\ Get0(media_streams.v[i], "Type") = StrV(str_Audio)
                /\ Truthy(Get0(media_streams.v[i], "IsDefault"))})
subtitle_stream(media_streams, play_state) ==
    FirstAt(media_streams.v,
            {i \in DOMAIN media_streams.v :
                /\ Get0(media_streams.v[i], "Type") = StrV(str_Subtitle)
                /\ Get0(media_streams.v[i], "Index")
                     = Get(play_state, "SubtitleStreamIndex", IntV(-1))})

\* a title builder that formats a movie or a track without testing its Name
build_full_title_no_name_test(now_playing) ==
    LET media_type == Lower(Get(now_playing, "Type", StrV(str_empty)).v)
        name == Get(now_playing, "Name", StrV(str_empty))
    IN IF media_type = str_episode THEN
           LET series == Get(now_playing, "SeriesName", StrV(str_empty))
               season == Get(now_playing, "ParentIndexNumber", StrV(str_empty))
               episode == Get(now_playing, "IndexNumber", StrV(str_empty))
           IN IF Truthy(series) /\ Truthy(season) /\ Truthy(episode) /\ Truthy(name)
              THEN StrV(ToStr(series) \o str_sep_s \o Format02d(season.v) \o str_e
                        \o Format02d(episode.v) \o str_sep \o ToStr(name))
              ELSE IF Truthy(series) /\ Truthy(name)
              THEN StrV(ToStr(series) \o str_sep \o ToStr(name))
              ELSE name
       ELSE IF media_type = str_movie THEN
           LET year == Get(now_playing, "ProductionYear", StrV(str_empty))
           IN IF Truthy(year)
              THEN StrV(ToStr(name) \o str_open \o ToStr(year) \o str_close)
              ELSE name
       ELSE IF media_type = str_track THEN
           LET artist == Get(now_playing, "AlbumArtist", StrV(str_empty))
           IN IF Truthy(artist)
              THEN StrV(ToStr(artist) \o str_sep \o ToStr(name))
              ELSE name
       ELSE name

\* EmbyConnect._build_full_title: the returned value (the title may be any value)
build_full_title(now_playing) ==
    LET media_type == Lower(Get(now_playing, "Type", StrV(str_empty)).v)
        name == Get(now_playing, "Name", StrV(str_empty))
    IN IF media_type = str_episode THEN
           LET series == Get(now_playing, "SeriesName", StrV(str_empty))
               season == Get(now_playing, "ParentIndexNumber", StrV(str_empty))
               episode == Get(now_playing, "IndexNumber", StrV(str_empty))
           IN IF Truthy(series) /\ Truthy(season) /\ Truthy(episode) /\ Truthy(name)
              THEN StrV(ToStr(series) \o str_sep_s \o Format02d(season.v) \o str_e
                        \o Format02d(episode.v) \o str_sep \o ToStr(name))
              ELSE IF Truthy(series) /\ Truthy(name)
              THEN StrV(ToStr(series) \o str_sep \o ToStr(name))
              ELSE name
       ELSE IF media_type = str_movie THEN
           LET year == Get(now_playing, "ProductionYear", StrV(str_empty))
           IN IF Truthy(name) /\ Truthy(year)
              THEN StrV(ToStr(name) \o str_open \o ToStr(year) \o str_close)
              ELSE name
       ELSE IF media_type = str_track THEN
           LET artist == Get(now_playing, "AlbumArtist", StrV(str_empty))
           IN IF Truthy(artist) /\ Truthy(name)
              THEN StrV(ToStr(artist) \o str_sep \o ToStr(name))
              ELSE name
       ELSE name

\* The inputs on which the body of transform_session_data raises (an
\* AttributeError on None.get / None.lower / None.replace, a TypeError on
\* iterating None, on None >= 0 or on a non-number / 10000, a ValueError on
\* format(str, "02d")), for a session that passed the first guard.
session_raises(emby_session) ==
    LET play_state == Get(emby_session, "PlayState", EmptyDict)
        now_playing == Get(emby_session, "NowPlayingItem", EmptyDict)
    IN \/ play_state.t # "dict"
       \/ now_playing.t # "dict"
       \/ /\ play_state.t = "dict"
          /\ now_playing.t = "dict"
          /\ LET media_streams == Get(now_playing, "MediaStreams", ListV(<<>>))
                 type == Get(now_playing, "Type", StrV(str_empty))
                 client == Get(emby_session, "Client", StrV(str_empty))
                 remote == Get0(emby_session, "RemoteEndPoint")
                 sub_index == Get(play_state, "SubtitleStreamIndex", IntV(-1))
                 image_tags == Get(now_playing, "ImageTags", EmptyDict)
                 position == Get(play_state, "PositionTicks", IntV(0))
                 runtime == Get(now_playing, "RunTimeTicks", IntV(0))
                 season == Get(now_playing, "ParentIndexNumber", StrV(str_empty))
                 episode == Get(now_playing, "IndexNumber", StrV(str_empty))
             IN \/ media_streams.t # "list"
                \/ type.t # "str"
                \/ client.t # "str"
                \/ (Truthy(remote) /\ remote.t # "str")
                \/ sub_index.t # "int"
                \/ image_tags.t # "dict"
                \/ (Truthy(position) /\ position.t # "int")
                \/ (Truthy(runtime) /\ runtime.t # "int")
                \/ /\ Lower(type.v) = str_episode
                   /\ Truthy(Get(now_playing, "SeriesName", StrV(str_empty)))
                   /\ Truthy(season) /\ Truthy(episode)
                   /\ Truthy(Get(now_playing, "Name", StrV(str_empty)))
                   /\ (season.t # "int" \/ episode.t # "int")

\* the dict literal "transformed_session" (the keys the claims read)
transformed_session(emby_session, clock) ==
    LET play_state == Get(emby_session, "PlayState", EmptyDict)
        now_playing == Get(emby_session, "NowPlayingItem", EmptyDict)
        media_streams == Get(now_playing, "MediaStreams", ListV(<<>>))
        video == video_stream(media_streams)
        audio == audio_stream(media_streams)
        subtitle == subtitle_stream(media_streams, play_state)
        sub_index == Get(play_state, "SubtitleStreamIndex", IntV(-1))
    IN MkDict([
        session_key |-> session_field(emby_session, "Id"),
        rating_key |-> Get(now_playing, "Id", StrV(str_empty)),
        user_id |-> session_field(emby_session, "UserId"),
        user |-> session_field(emby_session, "UserName"),
        friendly_name |-> session_field(emby_session, "DeviceName"),
        player |-> session_field(emby_session, "Client"),
        product |-> session_field(emby_session, "Client"),
        platform |-> StrV(platform(emby_session)),
        machine_id |-> session_field(emby_session, "DeviceId"),
        ip_address |-> StrV(ip_address(emby_session)),
        media_type |-> StrV(get_media_type(now_playing)),
        title |-> Get(now_playing, "Name", StrV(str_empty)),
        full_title |-> build_full_title(now_playing),
        state |-> StrV(session_state(play_state)),
        view_offset |-> IntV(ticks_to_ms(Get(play_state, "PositionTicks", IntV(0)))),
        duration |-> IntV(ticks_to_ms(Get(now_playing, "RunTimeTicks", IntV(0)))),
        started |-> IntV(clock),
        stopped |-> Null,
        transcode_decision |-> StrV(get_transcode_decision(play_state)),
        video_decision |-> StrV(stream_decision(play_state)),
        audio_decision |-> StrV(stream_decision(play_state)),
        stream_video_decision |-> StrV(stream_decision(play_state)),
        stream_audio_decision |-> StrV(stream_decision(play_state)),
        video_codec |-> Get(video, "Codec", StrV(str_empty)),
        audio_codec |-> Get(audio, "Codec", StrV(str_empty)),
        audio_language |-> Get(audio, "Language", StrV(str_empty)),
        subtitle_codec |-> Get(subtitle, "Codec", StrV(str_empty)),
        subtitle_language |-> Get(subtitle, "Language", StrV(str_empty)),
        subtitle_forced |-> IntV(IF Truthy(Get0(subtitle, "IsForced")) THEN 1 ELSE 0),
        subtitles |-> IntV(IF sub_index.v >= 0 THEN 1 ELSE 0),
        thumb |-> StrV(IF Truthy(Get0(Get(now_playing, "ImageTags", EmptyDict), "Primary"))
                       THEN str_items_prefix \o ToStr(Get0(now_playing, "Id"))
                            \o str_images_primary
                       ELSE str_empty)
       ])

\* EmbyConnect.transform_session_data(emby_session), helpers.timestamp() = clock
transform_session_data(emby_session, clock) ==
    IF is_inactive(emby_session) THEN Return(EmptyDict)
    ELSE IF session_raises(emby_session) THEN Raise
    ELSE Return(transformed_session(emby_session, clock))

----------------------------------------------------------------------------
(* User Normalizer: EmbyConnect.transform_user_data *)

\* a flag copied from the policy as it is
flag_uncoerced(x) == x

\* "1 if x else 0"
flag(x) == IntV(IF Truthy(x) THEN 1 ELSE 0)

\* the body raises when Policy is present and not a dict (None.get)
user_raises(emby_user) == Get(emby_user, "Policy", EmptyDict).t # "dict"

transformed_user(emby_user, clock) ==
    LET policy == Get(emby_user, "Policy", EmptyDict)
        avatar == StrV(IF Truthy(Get0(emby_user, "PrimaryImageTag"))
                       THEN str_users_prefix \o ToStr(Get0(emby_user, "Id"))
                            \o str_images_primary
                       ELSE str_empty)
    IN MkDict([
        user_id |-> Get(emby_user, "Id", StrV(str_empty)),
        username |-> Get(emby_user, "Name", StrV(str_empty)),
        friendly_name |-> Get(emby_user, "Name", StrV(str_empty)),
        email |-> Get(emby_user, "Email", StrV(str_empty)),
        is_admin |-> flag(Get(policy, "IsAdministrator", BoolV(FALSE))),
        is_home_user |-> IntV(1),
        is_allow_sync |-> flag(Get(policy, "EnableSyncTranscoding", BoolV(TRUE))),
        is_restricted |-> flag(Get(policy, "IsDisabled", BoolV(FALSE))),
        is_active |-> IntV(IF ~Truthy(Get(policy, "IsDisabled", BoolV(FALSE))) THEN 1 ELSE 0),
        created_at |-> IF Truthy(Get0(emby_user, "DateCreated"))
                       THEN IntV(clock) ELSE StrV(str_empty),
        last_seen |-> IF Truthy(Get0(emby_user, "LastLoginDate"))
                      THEN IntV(clock) ELSE StrV(str_empty),
        thumb |-> avatar,
        avatar_url |-> avatar,
        allow_guest |-> IntV(0),
        deleted_user |-> IntV(0),
        row_id |-> Null
       ])

\* a guard that tests for None only
transform_user_data_none_only(emby_user, clock) ==
    IF emby_user = Null THEN Return(EmptyDict)
    ELSE IF user_raises(emby_user) THEN Raise
    ELSE Return(transformed_user(emby_user, clock))

transform_user_data(emby_user, clock) ==
    IF ~Truthy(emby_user) THEN Return(EmptyDict)
    ELSE IF user_raises(emby_user) THEN Raise
    ELSE Return(transformed_user(emby_user, clock))

----------------------------------------------------------------------------
(* Library Normalizer: EmbyConnect.transform_library_data *)

str_movies == <<"m","o","v","i","e","s">>
str_tvshows == <<"t","v","s","h","o","w","s">>
str_music == <<"m","u","s","i","c">>
str_photos == <<"p","h","o","t","o","s">>
str_books == <<"b","o","o","k","s">>
str_homevideos == <<"h","o","m","e","v","i","d","e","o","s">>
str_musicvideos == <<"m","u","s","i","c","v","i","d","e","o","s">>
str_mixed == <<"m","i","x","e","d">>
str_show == <<"s","h","o","w">>
str_artist == <<"a","r","t","i","s","t">>
str_null == <<"n","u","l","l">>

\* get_section_type: type_mapping.get(collection_type.lower(), 'mixed')
get_section_type(emby_library) ==
    LET collection_type == Lower(Get(emby_library, "CollectionType", StrV(str_empty)).v)
    IN CASE collection_type = str_movies -> str_movie
         [] collection_type = str_tvshows -> str_show
         [] collection_type = str_music -> str_artist
         [] collection_type = str_photos -> str_photo
         [] collection_type = str_books -> str_photo
         [] collection_type = str_homevideos -> str_movie
         [] collection_type = str_musicvideos -> str_movie
         [] collection_type = str_mixed -> str_mixed
         [] OTHER -> str_mixed

\* sep.join(xs) of a sequence of strings
RECURSIVE Join(_, _)
Join(xs, sep) ==
    IF xs = <<>> THEN <<>>
    ELSE IF Len(xs) = 1 THEN xs[1].v
    ELSE xs[1].v \o sep \o Join(Tail(xs), sep)
\* json.dumps of None or of a list of strings (no character of them needs escaping)
JsonDumps(x) ==
    IF x.t = "list"
    THEN <<"[">> \o Join([i \in DOMAIN x.v |-> StrV(<<"\"">> \o x.v[i].v \o <<"\"">>)],
                         <<",", " ">>) \o <<"]">>
    ELSE str_null

\* the body raises when CollectionType is present and not a str (None.lower),
\* or Locations is present and not a list (';'.join(None))
library_raises(emby_library) ==
    \/ Get(emby_library, "CollectionType", StrV(str_empty)).t # "str"
    \/ Get(emby_library, "Locations", ListV(<<>>)).t # "list"

transformed_library(emby_library, clock) ==
    MkDict([
        section_id |-> Get(emby_library, "ItemId", StrV(str_empty)),
        section_name |-> Get(emby_library, "Name", StrV(str_empty)),
        section_type |-> StrV(get_section_type(emby_library)),
        uuid |-> Get(emby_library, "ItemId", StrV(str_empty)),
        created_at |-> IntV(clock),
        updated_at |-> IntV(clock),
        locations |-> StrV(JsonDumps(Get(emby_library, "Locations", ListV(<<>>)))),
        paths |-> StrV(Join(Get(emby_library, "Locations", ListV(<<>>)).v, <<";">>)),
        collection_type |-> Get(emby_library, "CollectionType", StrV(str_empty)),
        is_active |-> IntV(1),
        row_id |-> Null
       ])

transform_library_data(emby_library, clock) ==
    IF ~Truthy(emby_library) THEN Return(EmptyDict)
    ELSE IF library_raises(emby_library) THEN Raise
    ELSE Return(transformed_library(emby_library, clock))

----------------------------------------------------------------------------
(* Activity Aggregator *)

\* the record both aggregators of embyconnect.py return on failure
empty_activity == MkDict([stream_count |-> StrV(<<"0">>), sessions |-> ListV(<<>>)])

\* The for loop of EmbyConnect.get_current_activity (embyconnect.py) over the
\* raw sessions xs: the list active_sessions, or Raise when session.get or
\* transform_session_data raises (there is no try inside the loop).
RECURSIVE collect_active(_, _)
collect_active(xs, clock) ==
    IF xs = <<>> THEN Return(<<>>)
    ELSE LET session == Head(xs)
         IN IF session.t # "dict" THEN Raise
            ELSE LET rest == collect_active(Tail(xs), clock)
                 IN IF ~Truthy(Get0(session, "NowPlayingItem")) THEN rest
                    ELSE LET transformed == transform_session_data(session, clock)
                         IN IF transformed.kind = "raise" \/ rest.kind = "raise" THEN Raise
                            ELSE Return(<<transformed.val>> \o rest.val)

\* The module plexpy.session, which "from plexpy import session" binds.
PlexpySessionModule == [t |-> "module"]
\* What the name "session" denotes at "session.mask_session_info(...)": the for
\* loop's target makes "session" a local of get_current_activity, so after the
\* loop it is the last raw session, not the imported module.
session_after_loop(sessions_data) == sessions_data.v[Len(sessions_data.v)]
\* obj.mask_session_info(sessions): the module's function returns the list it
\* was given (it masks nothing for an unrestricted caller); any other object
\* has no such attribute (AttributeError).
mask_session_info(obj, sessions) ==
    IF obj = PlexpySessionModule THEN Return(ListV(sessions)) ELSE Raise

\* EmbyConnect.get_current_activity of embyconnect.py; transport is what
\* self.get_sessions(output_format='dict') does: Raise, or Return(None or a list)
get_current_activity(transport, clock) ==
    IF transport.kind = "raise" THEN Return(empty_activity)
    ELSE LET sessions_data == transport.val
         IN IF ~Truthy(sessions_data) THEN Return(empty_activity)
            ELSE LET active == collect_active(sessions_data.v, clock)
                 IN IF active.kind = "raise" THEN Return(empty_activity)
                    ELSE LET masked == mask_session_info(session_after_loop(sessions_data),
                                                         active.val)
                         IN IF masked.kind = "raise" THEN Return(empty_activity)
                            ELSE Return(MkDict([
                                   stream_count |-> StrV(IntToStr(Len(active.val))),
                                   sessions |-> masked.val]))

\* transform_session_data of embyconnect_standalone.EmbyConnect, which the
\* bridge calls: the Session Normalizer of the specification
standalone_transform_session_data(emby_session, clock) ==
    transform_session_data(emby_session, clock)

\* The for loop of the bridge's get_current_activity: a session whose
\* transformation raises or is empty is skipped.
RECURSIVE bridge_collect(_, _)
bridge_collect(xs, clock) ==
    IF xs = <<>> THEN <<>>
    ELSE LET transformed == standalone_transform_session_data(Head(xs), clock)
             rest == bridge_collect(Tail(xs), clock)
         IN IF transformed.kind = "raise" THEN rest
            ELSE IF Truthy(transformed.val) THEN <<transformed.val>> \o rest
            ELSE rest

\* EmbyConnect.get_current_activity of embyconnect_bridge.py; transport is what
\* self.emby_connect.get_sessions() does
bridge_get_current_activity(transport, clock) ==
    IF transport.kind = "raise" THEN Return(MkDict([sessions |-> ListV(<<>>)]))
    ELSE LET raw_sessions == transport.val
         IN IF Truthy(raw_sessions)
            THEN Return(MkDict([sessions |-> ListV(bridge_collect(raw_sessions.v, clock))]))
            ELSE Return(MkDict([sessions |-> ListV(<<>>)]))

----------------------------------------------------------------------------
(* Configuration: env_config.get_emby_config and the bridge's             *)
(* EmbyConnect._get_emby_config.  The process environment os.environ and    *)
(* the parsed KEY=VALUE pairs of the .env file are dicts of strings; an      *)
(* unset variable is a missing key.                                          *)

\* the timeout both loaders fall back to (embyconnect_bridge.py:83, 96)
DefaultTimeout == 30

str_false == <<"f","a","l","s","e">>
str_true == <<"t","r","u","e">>
str_localhost == <<"h","t","t","p",":","/","/","l","o","c","a","l","h","o","s","t",":","8","0","9","6">>
str_30 == <<"3","0">>
str_Emby_Server == <<"E","m","b","y"," ","S","e","r","v","e","r">>

\* Python "a or b": a when it is truthy, b otherwise
PyOr(a, b) == IF Truthy(a) THEN a ELSE b

\* int(s) of a string without sign, blank or underscore: its decimal value,
\* a ValueError when it is empty or holds another character
IsDecimal(s) == s # <<>> /\ \A i \in DOMAIN s : \E d \in DOMAIN Digits : Digits[d] = s[i]
DigitValue(c) == (CHOOSE d \in DOMAIN Digits : Digits[d] = c) - 1
RECURSIVE ParseNat(_)
ParseNat(s) ==
    IF Len(s) = 1 THEN DigitValue(s[1])
    ELSE 10 * ParseNat(SubSeq(s, 1, Len(s) - 1)) + DigitValue(s[Len(s)])
int_of(s) == IF IsDecimal(s) THEN Return(IntV(ParseNat(s))) ELSE Raise

\* load_env_file: the environment after the pairs of the .env file (None when
\* there is no file) have been written over it
load_env_file(environ, dotenv) ==
    IF dotenv.t # "dict" THEN environ
    ELSE [t |-> "dict",
          v |-> [k \in DOMAIN environ.v \cup DOMAIN dotenv.v |->
                    IF k \in DOMAIN dotenv.v THEN dotenv.v[k] ELSE environ.v[k]]]

\* env_config.get_emby_config()
get_emby_config(environ, dotenv) ==
    LET env == load_env_file(environ, dotenv)
        timeout == int_of(Get(env, "EMBY_TIMEOUT", StrV(str_30)).v)
    IN IF timeout.kind = "raise" THEN Raise
       ELSE Return(MkDict([
              url |-> Get(env, "EMBY_URL", StrV(str_localhost)),
              api_key |-> Get(env, "EMBY_API_KEY", StrV(str_empty)),
              ssl_verify |-> BoolV(Lower(Get(env, "EMBY_SSL_VERIFY", StrV(str_true)).v)
                                     = str_true),
              timeout |-> timeout.val,
              debug_mode |-> BoolV(Lower(Get(env, "EMBY_DEBUG_MODE", StrV(str_false)).v)
                                     = str_true),
              server_name |-> Get(env, "EMBY_SERVER_NAME", StrV(str_Emby_Server))]))

\* the "safe defaults" of the except branch
bridge_safe_defaults ==
    MkDict([server_url |-> StrV(str_empty), api_key |-> StrV(str_empty),
            timeout |-> IntV(DefaultTimeout), verify_ssl |-> BoolV(TRUE)])

\* the attributes plexpy.CONFIG is read for
ConfigKeys == {"EMBY_SERVER_URL", "EMBY_API_KEY", "EMBY_TIMEOUT", "EMBY_VERIFY_SSL"}

\* the settings read from the environment, given the parsed timeout
bridge_env_settings(environ, timeout) ==
    MkDict([server_url |-> PyOr(Get0(environ, "EMBY_URL"),
                                Get(environ, "EMBY_SERVER_URL", StrV(str_empty))),
            api_key |-> Get(environ, "EMBY_API_KEY", StrV(str_empty)),
            timeout |-> timeout,
            verify_ssl |-> BoolV(Lower(Get(environ, "EMBY_VERIFY_SSL",
                                           StrV(str_true)).v) = str_true)])
\* the settings read from plexpy.CONFIG
bridge_config_settings(config) ==
    MkDict([server_url |-> PyOr(config.v["EMBY_SERVER_URL"], StrV(str_empty)),
            api_key |-> PyOr(config.v["EMBY_API_KEY"], StrV(str_empty)),
            timeout |-> PyOr(config.v["EMBY_TIMEOUT"], IntV(DefaultTimeout)),
            verify_ssl |-> BoolV(Truthy(config.v["EMBY_VERIFY_SSL"]))])

\* EmbyConnect._get_emby_config of the bridge: the attributes server_url,
\* api_key, timeout, verify_ssl of the object when the method returns;
\* config is plexpy.CONFIG (None before it is initialised)
bridge_get_emby_config(environ, config) ==
    IF Truthy(Get0(environ, "EMBY_URL")) \/ Truthy(Get0(environ, "EMBY_SERVER_URL"))
    THEN LET timeout == int_of(Get(environ, "EMBY_TIMEOUT", StrV(str_30)).v)
         IN IF timeout.kind = "raise" THEN Return(bridge_safe_defaults)
            ELSE Return(bridge_env_settings(environ, timeout.val))
    ELSE IF config.t # "dict" \/ ~(ConfigKeys \subseteq DOMAIN config.v)
    THEN Return(bridge_safe_defaults)
    ELSE Return(bridge_config_settings(config))

----------------------------------------------------------------------------
(* Transport and client: SimpleHTTPHandler.make_request, the transport     *)
(* this repository carries (test_simple_emby_connect.py), the construction  *)
(* of the client (EmbyConnect.__init__ of embyconnect.py) and the client    *)
(* calls get_sessions and terminate_session.                                *)

UpperChar(c) ==
    IF \E i \in DOMAIN LowerAlpha : LowerAlpha[i] = c
    THEN UpperAlpha[CHOOSE i \in DOMAIN LowerAlpha : LowerAlpha[i] = c]
    ELSE c
Upper(s) == [i \in DOMAIN s |-> UpperChar(s[i])]

\* s.rstrip(c)
RECURSIVE RStrip(_, _)
RStrip(s, c) ==
    IF s # <<>> /\ s[Len(s)] = c THEN RStrip(SubSeq(s, 1, Len(s) - 1), c) ELSE s

str_GET == <<"G","E","T">>
str_POST == <<"P","O","S","T">>
str_dict == <<"d","i","c","t">>
str_json == <<"j","s","o","n">>
str_sessions_uri == <<"/","S","e","s","s","i","o","n","s">>
str_sessions_prefix == <<"/","S","e","s","s","i","o","n","s","/">>
str_message_suffix == <<"/","M","e","s","s","a","g","e">>
str_stop_suffix == <<"/","P","l","a","y","i","n","g","/","S","t","o","p">>
str_owner_ended == <<"T","h","e"," ","s","e","r","v","e","r"," ","o","w","n","e","r"," ","h","a","s"," ","e","n","d","e","d"," ","t","h","e"," ","s","t","r","e","a","m",".">>

\* What requests.get / requests.post does: it returns a response (status
\* code, body text, and what response.json() does with the text: the decoded
\* value or a ValueError) or raises an exception.
HttpResponse(status_code, text, decoded) ==
    [kind |-> "response", status_code |-> status_code, text |-> text, json |-> decoded]
HttpException(error) == [kind |-> "exception", error |-> error]

\* the requests.Response object make_request hands back under return_response
ResponseObject(http) ==
    [t |-> "response", status_code |-> http.status_code, text |-> http.text]
\* response.content
BytesV(s) == [t |-> "bytes", v |-> s]
\* Response.ok, which is also bool(response): no 4xx or 5xx status
ok(response) == response.status_code < 400

\* SimpleHTTPHandler.make_request: the value it returns, given what the HTTP
\* call does.  Everything from the call on is inside one try whose except
\* returns None.
make_request(http, request_type, output_format, return_response) ==
    IF Upper(request_type) \notin {str_GET, str_POST} THEN Return(Null)
    ELSE IF http.kind = "exception" THEN Return(Null)
    ELSE IF return_response THEN Return(ResponseObject(http))
    ELSE IF http.status_code = 200
    THEN IF output_format = str_dict
         THEN IF http.json.kind = "raise" THEN Return(Null) ELSE Return(http.json.val)
         ELSE IF output_format = str_json THEN Return(StrV(http.text))
         ELSE Return(BytesV(http.text))
    ELSE Return(Null)

\* the HTTP requests one make_request sends: one, to base_url + uri with the
\* token in the X-Emby-Token header, when the request type is GET or POST
sent(handler, uri, request_type, data) ==
    IF Upper(request_type) = str_GET
    THEN << [method |-> str_GET, url |-> RStrip(handler.url.v, "/") \o uri,
             token |-> handler.api_key, data |-> Null] >>
    ELSE IF Upper(request_type) = str_POST
    THEN << [method |-> str_POST, url |-> RStrip(handler.url.v, "/") \o uri,
             token |-> handler.api_key, data |-> data] >>
    ELSE <<>>

\* EmbyConnect.__init__(url, api_key) of embyconnect.py: the url, api_key,
\* timeout and ssl_verify the request handler is built with; the ValueError
\* of get_emby_config propagates
EmbyConnect_init(url, api_key, environ, dotenv) ==
    LET config == get_emby_config(environ, dotenv)
    IN IF config.kind = "raise" THEN Raise
       ELSE Return([url |-> PyOr(url, config.val.v["url"]),
                    api_key |-> PyOr(api_key, config.val.v["api_key"]),
                    timeout |-> config.val.v["timeout"],
                    ssl_verify |-> config.val.v["ssl_verify"]])

\* the body of the Message request
message_data(message) ==
    MkDict([Header |-> StrV(<<"S","t","r","e","a","m"," ","T","e","r","m","i","n","a","t","e","d">>),
            Text |-> PyOr(message, StrV(str_owner_ended)),
            TimeoutMs |-> IntV(5000)])

\* EmbyConnect.terminate_session with the stop request sent only after a
\* message request that succeeded
terminate_session_stop_on_success(handler, session_id, message, http_message, http_stop) ==
    IF ~Truthy(session_id) THEN [ret |-> Return(BoolV(FALSE)), sent |-> <<>>]
    ELSE LET uri == str_sessions_prefix \o ToStr(session_id) \o str_message_suffix
             stop_uri == str_sessions_prefix \o ToStr(session_id) \o str_stop_suffix
             response == make_request(http_message, str_POST, str_dict, TRUE).val
             success == response # Null /\ ok(response)
         IN [ret |-> Return(BoolV(success)),
             sent |-> sent(handler, uri, str_POST, message_data(message))
                        \o (IF success THEN sent(handler, stop_uri, str_POST, Null)
                            ELSE <<>>)]
\* EmbyConnect.terminate_session(session_id, message): the value returned and
\* the requests sent; http_message and http_stop are what the two HTTP calls do
terminate_session(handler, session_id, message, http_message, http_stop) ==
    IF ~Truthy(session_id) THEN [ret |-> Return(BoolV(FALSE)), sent |-> <<>>]
    ELSE LET uri == str_sessions_prefix \o ToStr(session_id) \o str_message_suffix
             stop_uri == str_sessions_prefix \o ToStr(session_id) \o str_stop_suffix
             response == make_request(http_message, str_POST, str_dict, TRUE).val
             stopped == make_request(http_stop, str_POST, str_dict, FALSE)
         IN [ret |-> Return(BoolV(response # Null /\ ok(response))),
             sent |-> sent(handler, uri, str_POST, message_data(message))
                        \o sent(handler, stop_uri, str_POST, Null)]

----------------------------------------------------------------------------
(* The bridge EmbyConnect of embyconnect_bridge.py and the PmsConnect       *)
(* wrapper.  Every bridge method calls the standalone client                *)
(* (embyconnect_standalone.EmbyConnect); what that call does, Raise or       *)
(* Return(value), is the method's first argument here.                       *)

\* the elements a for loop over x visits: those of a list; the keys of a dict
\* (strings, [t |-> "key"]); Raise (TypeError) for a value that is not iterable
KeySeq(K) == CHOOSE q \in [1..Cardinality(K) -> K] : \A k \in K : \E i \in DOMAIN q : q[i] = k
Iterate(x) ==
    IF x.t = "list" THEN Return(x.v)
    ELSE IF x.t = "dict"
    THEN Return([i \in 1..Cardinality(DOMAIN x.v) |->
                    [t |-> "key", v |-> KeySeq(DOMAIN x.v)[i]]])
    ELSE Raise

\* transform_user_data / transform_library_data of the standalone client: the
\* User and Library Normalizers of the specification; an argument that is
\* neither None nor a dict is a non-empty string here, which has no .get
standalone_transform_user_data(emby_user, clock) ==
    IF emby_user.t \in {"null", "dict"} THEN transform_user_data(emby_user, clock)
    ELSE Raise
standalone_transform_library_data(emby_library, clock) ==
    IF emby_library.t \in {"null", "dict"} THEN transform_library_data(emby_library, clock)
    ELSE Raise

\* the bodies of the two for loops: a record whose transformation raises or
\* is empty is skipped
RECURSIVE bridge_collect_users(_, _)
bridge_collect_users(xs, clock) ==
    IF xs = <<>> THEN <<>>
    ELSE LET transformed == standalone_transform_user_data(Head(xs), clock)
             rest == bridge_collect_users(Tail(xs), clock)
         IN IF transformed.kind = "raise" THEN rest
            ELSE IF Truthy(transformed.val) THEN <<transformed.val>> \o rest
            ELSE rest
RECURSIVE bridge_collect_libraries(_, _)
bridge_collect_libraries(xs, clock) ==
    IF xs = <<>> THEN <<>>
    ELSE LET transformed == standalone_transform_library_data(Head(xs), clock)
             rest == bridge_collect_libraries(Tail(xs), clock)
         IN IF transformed.kind = "raise" THEN rest
            ELSE IF Truthy(transformed.val) THEN <<transformed.val>> \o rest
            ELSE rest

\* EmbyConnect.get_server_info of the bridge; result.get(...) of the debug
\* line raises for a truthy result that is not a dict
bridge_get_server_info(result) ==
    IF result.kind = "raise" THEN Return(Null)
    ELSE IF Truthy(result.val) /\ result.val.t # "dict" THEN Return(Null)
    ELSE Return(result.val)

\* EmbyConnect.get_metadata; metadata is what get_item_details does,
\* transformed what transform_metadata does with it
bridge_get_metadata(metadata, transformed) ==
    IF metadata.kind = "raise" THEN Return(Null)
    ELSE IF ~Truthy(metadata.val) THEN Return(Null)
    ELSE IF transformed.kind = "raise" THEN Return(Null)
    ELSE Return(transformed.val)

\* EmbyConnect.get_user_info
bridge_get_user_info(user_info) ==
    IF user_info.kind = "raise" THEN Return(Null) ELSE Return(user_info.val)

\* EmbyConnect.get_users without the outer try
bridge_get_users_unguarded(raw_users, clock) ==
    IF raw_users.kind = "raise" THEN Raise
    ELSE IF ~Truthy(raw_users.val) THEN Return(ListV(<<>>))
    ELSE LET users == Iterate(raw_users.val)
         IN IF users.kind = "raise" THEN Raise
            ELSE Return(ListV(bridge_collect_users(users.val, clock)))
\* EmbyConnect.get_users; raw_users is what get_users_list() does
bridge_get_users(raw_users, clock) ==
    IF raw_users.kind = "raise" THEN Return(ListV(<<>>))
    ELSE IF ~Truthy(raw_users.val) THEN Return(ListV(<<>>))
    ELSE LET users == Iterate(raw_users.val)
         IN IF users.kind = "raise" THEN Return(ListV(<<>>))
            ELSE Return(ListV(bridge_collect_users(users.val, clock)))

\* EmbyConnect.get_libraries; len(libraries) of the debug line raises for a
\* truthy value without a length
bridge_get_libraries(libraries) ==
    IF libraries.kind = "raise" THEN Return(ListV(<<>>))
    ELSE IF Truthy(libraries.val) /\ libraries.val.t \notin {"list", "dict", "str"}
    THEN Return(ListV(<<>>))
    ELSE Return(libraries.val)

\* EmbyConnect.get_library_details
bridge_get_library_details(raw_libraries, clock) ==
    IF raw_libraries.kind = "raise" THEN Return(ListV(<<>>))
    ELSE IF ~Truthy(raw_libraries.val) THEN Return(ListV(<<>>))
    ELSE LET libraries == Iterate(raw_libraries.val)
         IN IF libraries.kind = "raise" THEN Return(ListV(<<>>))
            ELSE Return(ListV(bridge_collect_libraries(libraries.val, clock)))

\* EmbyConnect.test_connection
bridge_test_connection(result) ==
    Return(BoolV(Truthy(bridge_get_server_info(result).val)))

str_system_info_uri == <<"/","S","y","s","t","e","m","/","I","n","f","o">>
str_users_query_uri == <<"/","U","s","e","r","s","/","Q","u","e","r","y">>
str_virtual_folders_uri == <<"/","L","i","b","r","a","r","y","/","V","i","r","t","u","a","l","F","o","l","d","e","r","s">>
str_users_prefix_uri == <<"/","U","s","e","r","s","/">>
str_items_infix == <<"/","I","t","e","m","s","/">>

\* the query methods of the bridge EmbyConnect
BridgeMethods ==
    {"get_server_info", "get_current_activity", "get_metadata", "get_user_info",
     "get_users", "get_libraries", "get_library_details", "test_connection"}

\* the request the standalone client sends for the bridge method: one GET on
\* the endpoint of the method
standalone_sent(handler, name, id) ==
    CASE name \in {"get_server_info", "test_connection"}
           -> sent(handler, str_system_info_uri, str_GET, Null)
      [] name = "get_current_activity" -> sent(handler, str_sessions_uri, str_GET, Null)
      [] name = "get_metadata"
           -> sent(handler, str_users_prefix_uri \o str_items_infix \o ToStr(id), str_GET, Null)
      [] name = "get_user_info"
           -> sent(handler, str_users_prefix_uri \o ToStr(id), str_GET, Null)
      [] name = "get_users" -> sent(handler, str_users_query_uri, str_GET, Null)
      [] name \in {"get_libraries", "get_library_details"}
           -> sent(handler, str_virtual_folders_uri, str_GET, Null)
      [] OTHER -> <<>>

\* getattr(bridge, name)(...): the value returned (or the error raised) and
\* the requests sent; a name the bridge does not define is an AttributeError,
\* and its attribute emby_connect is not callable
bridge_call(handler, name, a, clock) ==
    [ret |-> CASE name = "get_server_info" -> bridge_get_server_info(a.outcome)
               [] name = "get_current_activity"
                    -> bridge_get_current_activity(a.outcome, clock)
               [] name = "get_metadata" -> bridge_get_metadata(a.outcome, a.transformed)
               [] name = "get_user_info" -> bridge_get_user_info(a.outcome)
               [] name = "get_users" -> bridge_get_users(a.outcome, clock)
               [] name = "get_libraries" -> bridge_get_libraries(a.outcome)
               [] name = "get_library_details"
                    -> bridge_get_library_details(a.outcome, clock)
               [] name = "test_connection" -> bridge_test_connection(a.outcome)
               [] OTHER -> Raise,
     sent |-> standalone_sent(handler, name, a.id)]

\* PmsConnect with a get_current_activity of its own that answers in the
\* shape of embyconnect.py
pms_connect_call_own_activity(handler, name, a, clock) ==
    IF name = "get_current_activity"
    THEN [ret |-> Return(empty_activity), sent |-> <<>>]
    ELSE bridge_call(handler, name, a, clock)
\* getattr(PmsConnect(), name)(...): PmsConnect defines __init__ and
\* __getattr__ and holds the attribute emby_connect, the bridge; every other
\* name is looked up on the bridge.  Its own emby_connect is not callable.
pms_connect_call(handler, name, a, clock) ==
    IF name = "emby_connect" THEN [ret |-> Raise, sent |-> <<>>]
    ELSE bridge_call(handler, name, a, clock)

----------------------------------------------------------------------------
(* Concurrent callers of the normalizers.  The raw records live on the heap  *)
(* and a caller holds a reference to one; a call first tests its record for  *)
(* emptiness and then, in a later step, builds the result from the record as  *)
(* it is on the heap at that moment.                                          *)

\* the normalizer named op applied to raw
normalize(name, raw, clock) ==
    CASE name = "transform_session_data" -> transform_session_data(raw, clock)
      [] name = "transform_user_data" -> transform_user_data(raw, clock)
      [] name = "transform_library_data" -> transform_library_data(raw, clock)
\* the test the normalizer opens with: the empty record is returned at once
returns_empty(name, raw) ==
    IF name = "transform_session_data" THEN is_inactive(raw) ELSE ~Truthy(raw)
\* a normalizer that empties the record it was handed
record_after_cleared(name, raw) == IF raw.t = "dict" THEN EmptyDict ELSE raw
\* the raw record after the normalizer has run on it: the normalizers only
\* read their argument (.get and iteration), they assign to no key of it and
\* to no attribute of self
record_after(name, raw) == raw

----------------------------------------------------------------------------
(* Inputs: raw provider records, every field absent, null or set *)

val_session_id == StrV(<<"s","1">>)
val_user_id == StrV(<<"u","1">>)
val_user_name == StrV(<<"A","n","n">>)
val_device_name == StrV(<<"T","V">>)
val_device_id == StrV(<<"d","1">>)
val_client == StrV(<<"E","m","b","y"," ","W","e","b">>)
val_endpoint == StrV(<<"1",".","2",":","8","0">>)
val_endpoint_bare == StrV(<<"1",".","2">>)
val_endpoint_v6 == StrV(<<"[",":",":","1","]",":","8","0">>)
val_item_id == StrV(<<"i","1">>)
val_item_name == StrV(<<"P","i","l","o","t">>)
val_series == StrV(<<"L","o","s","t">>)
val_tag == StrV(<<"t","g">>)
val_path == StrV(<<"/","m">>)

SampleVideo == MkDict([Type |-> StrV(str_Video), Codec |-> StrV(<<"h","2","6","4">>)])
SampleAudio == MkDict([Type |-> StrV(str_Audio), Codec |-> StrV(<<"a","c","3">>),
                       Language |-> StrV(<<"e","n","g">>), IsDefault |-> BoolV(TRUE)])
SampleSubtitle == MkDict([Type |-> StrV(str_Subtitle), Codec |-> StrV(<<"s","r","t">>),
                          Index |-> IntV(0), Language |-> StrV(<<"e","n","g">>)])

\* the sample session of test_transformations_simple.py, shortened
SamplePlayState ==
    MkDict([PositionTicks |-> IntV(909997742), IsPaused |-> BoolV(FALSE),
            PlayMethod |-> StrV(str_DirectStream)])
SampleItem ==
    MkDict([Name |-> val_item_name, Id |-> val_item_id,
            Type |-> StrV(<<"E","p","i","s","o","d","e">>),
            SeriesName |-> val_series, ParentIndexNumber |-> IntV(1),
            IndexNumber |-> IntV(5), RunTimeTicks |-> IntV(20000),
            MediaStreams |-> ListV(<<SampleVideo, SampleAudio>>)])
SampleSession ==
    MkDict([PlayState |-> SamplePlayState, Id |-> val_session_id,
            UserId |-> val_user_id, UserName |-> val_user_name,
            Client |-> val_client, DeviceName |-> val_device_name,
            DeviceId |-> val_device_id, RemoteEndPoint |-> val_endpoint,
            NowPlayingItem |-> SampleItem])

Opt(x) == {Absent, Null, x}
TickValues == {Absent, Null, IntV(0), IntV(9999), IntV(10000), IntV(909997742),
               IntV(-1), IntV(-20000)}
PausedValues == {Absent, Null, BoolV(TRUE), BoolV(FALSE)}
PlayMethodValues == {Absent, Null, StrV(str_DirectPlay), StrV(str_DirectStream),
                     StrV(val_Transcode), StrV(str_empty)}
SubtitleIndexValues == {Absent, Null, IntV(-1), IntV(0)}
PlayStates ==
    {Absent, Null, EmptyDict} \cup
    {MkDict([IsPaused |-> p, PlayMethod |-> m, PositionTicks |-> t,
             SubtitleStreamIndex |-> i]) :
        p \in PausedValues, m \in PlayMethodValues, t \in TickValues,
        i \in SubtitleIndexValues}
ItemTypeValues == {Absent, Null, StrV(<<"E","p","i","s","o","d","e">>),
                   StrV(<<"M","o","v","i","e">>)}
MediaStreamValues == {Absent, Null, ListV(<<>>), ListV(<<SampleVideo, SampleAudio>>),
                      ListV(<<SampleSubtitle, SampleAudio>>)}
ImageTagValues == {Absent, Null, MkDict([Primary |-> val_tag])}
Items ==
    {Absent, Null, EmptyDict} \cup
    {MkDict([Id |-> id, Name |-> name, Type |-> type, SeriesName |-> val_series,
             ParentIndexNumber |-> IntV(1), IndexNumber |-> IntV(5),
             RunTimeTicks |-> t, MediaStreams |-> ms, ImageTags |-> tags]) :
        id \in Opt(val_item_id), name \in Opt(val_item_name), type \in ItemTypeValues,
        t \in TickValues, ms \in MediaStreamValues, tags \in ImageTagValues}

\* sessions that differ from the sample in the play state, in the item, or in
\* the identity fields
PlayStateSessions == {WithKey(SampleSession, "PlayState", ps) : ps \in PlayStates}
ItemSessions ==
    {WithKey(SampleSession, "NowPlayingItem", item) : item \in Items}
    \cup {WithKey(MkDict([Id |-> val_session_id, UserName |-> val_user_name]),
                  "NowPlayingItem", item) : item \in {Absent, Null, EmptyDict}}
IdentitySessions ==
    {MkDict([Id |-> id, UserId |-> uid, UserName |-> user, DeviceName |-> dev,
             DeviceId |-> did, Client |-> client, RemoteEndPoint |-> remote,
             NowPlayingItem |-> MkDict([Id |-> val_item_id])]) :
        id \in Opt(val_session_id), uid \in Opt(val_user_id), user \in Opt(val_user_name),
        dev \in Opt(val_device_name), did \in Opt(val_device_id),
        client \in Opt(val_client),
        remote \in Opt(val_endpoint) \cup {val_endpoint_bare, val_endpoint_v6,
                                             StrV(str_empty)}}
\* the sequences over S of length at most n
RECURSIVE SeqsUpTo(_, _)
SeqsUpTo(S, n) ==
    IF n = 0 THEN {<<>>}
    ELSE LET shorter == SeqsUpTo(S, n - 1)
         IN shorter \cup {Append(xs, x) : xs \in {ys \in shorter : Len(ys) = n - 1}, x \in S}
\* items that differ in what _build_full_title and get_media_type read
val_artist == StrV(<<"A","b","b","a">>)
val_year == IntV(1999)
NameValues == {Absent, Null, StrV(str_empty), val_item_name}
EpisodeItems ==
    {MkDict([Id |-> val_item_id, Type |-> type, Name |-> name, SeriesName |-> series,
             ParentIndexNumber |-> season, IndexNumber |-> episode]) :
        type \in {StrV(<<"E","p","i","s","o","d","e">>), StrV(<<"E","P","I","S","O","D","E">>)},
        name \in NameValues, series \in Opt(val_series),
        season \in {Absent, Null, IntV(0), IntV(1), IntV(12), IntV(100)},
        episode \in {Absent, Null, IntV(0), IntV(5), IntV(10)}}
MovieItems ==
    {MkDict([Id |-> val_item_id, Type |-> type, Name |-> name, ProductionYear |-> year,
             SeriesName |-> val_series]) :
        type \in {StrV(<<"M","o","v","i","e">>), StrV(<<"M","O","V","I","E">>)},
        name \in NameValues, year \in Opt(val_year) \cup {IntV(0)}}
TrackItems ==
    {MkDict([Id |-> val_item_id, Type |-> type, Name |-> name, AlbumArtist |-> artist,
             ProductionYear |-> val_year]) :
        type \in {StrV(<<"T","r","a","c","k">>), StrV(<<"t","r","a","c","k">>)},
        name \in NameValues, artist \in Opt(val_artist)}
OtherTypeValues ==
    {Absent, StrV(str_empty), StrV(<<"A","u","d","i","o">>), StrV(<<"P","h","o","t","o">>), StrV(<<"P","H","O","T","O">>), StrV(<<"C","h","a","n","n","e","l">>), StrV(<<"P","r","o","g","r","a","m">>),
     StrV(<<"T","v","C","h","a","n","n","e","l">>), StrV(<<"S","e","r","i","e","s">>), StrV(<<"M","o","v","i","e","s">>)}
OtherItems ==
    {MkDict([Id |-> val_item_id, Type |-> type, Name |-> name, SeriesName |-> val_series,
             ParentIndexNumber |-> IntV(1), IndexNumber |-> IntV(5),
             ProductionYear |-> year, AlbumArtist |-> artist]) :
        type \in OtherTypeValues, name \in NameValues,
        year \in {Absent, val_year}, artist \in {Absent, val_artist}}
TitleSessions ==
    {WithKey(SampleSession, "NowPlayingItem", item) :
        item \in EpisodeItems \cup MovieItems \cup TrackItems \cup OtherItems}

\* items that differ in their MediaStreams list, played with each subtitle index
SecondVideo == MkDict([Type |-> StrV(str_Video), Codec |-> StrV(<<"h","e","v","c">>)])
OtherAudio == MkDict([Type |-> StrV(str_Audio), Codec |-> StrV(<<"a","a","c">>),
                      Language |-> StrV(<<"f","r","a">>), IsDefault |-> BoolV(FALSE)])
SecondAudio == MkDict([Type |-> StrV(str_Audio), Codec |-> StrV(<<"d","t","s">>),
                       Language |-> StrV(<<"d","e","u">>), IsDefault |-> BoolV(TRUE)])
SecondSubtitle == MkDict([Type |-> StrV(str_Subtitle), Codec |-> StrV(<<"p","g","s">>),
                          Index |-> IntV(2), Language |-> StrV(<<"d","e","u">>),
                          IsForced |-> BoolV(TRUE)])
NegativeSubtitle == MkDict([Type |-> StrV(str_Subtitle), Codec |-> StrV(<<"a","s","s">>),
                            Index |-> IntV(-1), Language |-> StrV(<<"f","r","a">>),
                            IsForced |-> BoolV(TRUE)])
UntypedStream == MkDict([Codec |-> StrV(<<"b","i","n">>), Index |-> IntV(0)])
\* lists that differ in their video and audio streams, played with no subtitle
AudioVideoStreams == {SampleVideo, SecondVideo, OtherAudio, SampleAudio, SecondAudio,
                      UntypedStream}
\* lists that differ in their subtitle streams, played with each subtitle index
SubtitleStreams == {SampleSubtitle, SecondSubtitle, NegativeSubtitle, SampleAudio}
StreamSession(ms, play_state) ==
    WithKey(WithKey(SampleSession, "NowPlayingItem",
                    WithKey(SampleItem, "MediaStreams", ListV(ms))),
            "PlayState", play_state)
StreamSessions ==
    {StreamSession(ms, MkDict([PlayMethod |-> StrV(str_DirectPlay)])) :
        ms \in SeqsUpTo(AudioVideoStreams, MaxStreams)}
    \cup {StreamSession(ms, MkDict([PlayMethod |-> StrV(str_DirectPlay),
                                    SubtitleStreamIndex |-> i])) :
            ms \in SeqsUpTo(SubtitleStreams, MaxStreams),
            i \in {Absent, Null, IntV(-1), IntV(0), IntV(2)}}

RawSessions ==
    {Null, EmptyDict} \cup PlayStateSessions \cup ItemSessions \cup IdentitySessions
    \cup TitleSessions \cup StreamSessions

RawUsers ==
    {Null, EmptyDict} \cup
    {MkDict([Id |-> id, Name |-> name, Policy |-> policy, PrimaryImageTag |-> tag,
             DateCreated |-> created]) :
        id \in Opt(val_user_id), name \in Opt(val_user_name),
        policy \in {Absent, Null, EmptyDict} \cup
                   {MkDict([IsAdministrator |-> a, IsDisabled |-> d]) :
                       a \in {Absent, Null, BoolV(TRUE), BoolV(FALSE)},
                       d \in {Absent, Null, BoolV(TRUE), BoolV(FALSE)}},
        tag \in Opt(val_tag), created \in {Absent, val_tag}}

RawLibraries ==
    {Null, EmptyDict} \cup
    {MkDict([ItemId |-> id, Name |-> name, CollectionType |-> type,
             Locations |-> locations]) :
        id \in Opt(val_item_id), name \in Opt(val_item_name),
        type \in {Absent, Null, StrV(str_movies), StrV(str_tvshows),
                  StrV(<<"M","o","v","i","e","s">>),
                  StrV(<<"a","u","d","i","o","b","o","o","k","s">>),
                  StrV(str_music), StrV(str_photos), StrV(str_books),
                  StrV(str_homevideos), StrV(str_musicvideos), StrV(str_mixed),
                  StrV(<<"T","v","S","h","o","w","s">>), StrV(str_empty)},
        locations \in {Absent, Null, ListV(<<>>), ListV(<<val_path>>),
                       ListV(<<val_path, val_path>>)}}

\* process environments, .env files and plexpy.CONFIG objects
val_env_url == StrV(<<"h","t","t","p",":","/","/","h">>)
val_env_server_url == StrV(<<"h","t","t","p",":","/","/","s">>)
val_env_key == StrV(<<"k">>)
val_file_url == StrV(<<"h","t","t","p",":","/","/","f">>)
val_config_url == StrV(<<"h","t","t","p",":","/","/","c">>)
Environments ==
    {MkDict([EMBY_URL |-> url, EMBY_SERVER_URL |-> server_url, EMBY_API_KEY |-> key,
             EMBY_TIMEOUT |-> timeout, EMBY_VERIFY_SSL |-> verify,
             EMBY_SSL_VERIFY |-> ssl_verify]) :
        url \in {Absent, StrV(str_empty), val_env_url},
        server_url \in {Absent, val_env_server_url},
        key \in {Absent, StrV(str_empty), val_env_key},
        timeout \in {Absent, StrV(<<"5">>), StrV(<<"a","b","c">>)},
        verify \in {Absent, StrV(str_false), StrV(<<"T","r","u","e">>)},
        ssl_verify \in {Absent, StrV(str_false)}}
DotEnvFiles == {Null, MkDict([EMBY_URL |-> val_file_url])}
Configs ==
    {Null,
     MkDict([EMBY_SERVER_URL |-> StrV(str_empty), EMBY_API_KEY |-> StrV(str_empty),
             EMBY_TIMEOUT |-> IntV(0), EMBY_VERIFY_SSL |-> IntV(0)]),
     MkDict([EMBY_SERVER_URL |-> val_config_url, EMBY_API_KEY |-> val_env_key,
             EMBY_TIMEOUT |-> IntV(60), EMBY_VERIFY_SSL |-> IntV(1)])}

\* the raw sessions one poll is made of: idle, playing, paused, one whose
\* PlayState is null, one whose NowPlayingItem is empty, and null
IdleSession == MkDict([Id |-> val_session_id, UserName |-> val_user_name])
PausedSession ==
    WithKey(SampleSession, "PlayState", MkDict([IsPaused |-> BoolV(TRUE)]))
NullPlayStateSession == WithKey(SampleSession, "PlayState", Null)
EmptyItemSession == WithKey(SampleSession, "NowPlayingItem", EmptyDict)
PollSessions == {IdleSession, SampleSession, PausedSession, NullPlayStateSession,
                 EmptyItemSession, Null}
\* what the transport's GET /Sessions does: raises, returns None (no data,
\* a timeout, a non-2xx answer), or returns a list of raw sessions
TransportOutcomes ==
    {Raise, Return(Null)} \cup {Return(ListV(xs)) : xs \in SeqsUpTo(PollSessions, MaxSessions)}

\* what an HTTP call can do: answer with a status and a body that is JSON
\* ("[]") or is not ("oops"), or fail with a timeout, a connection error or
\* another error
HttpStatuses == {200, 201, 304, 404, 500}
HttpBodies == {[text |-> <<"[","]">>, json |-> Return(ListV(<<>>))],
               [text |-> <<"o","o","p","s">>, json |-> Raise]}
HttpFailures == {HttpException("Timeout"), HttpException("ConnectionError"),
                 HttpException("TooManyRedirects")}
HttpOutcomes ==
    {HttpResponse(c, b.text, b.json) : c \in HttpStatuses, b \in HttpBodies}
    \cup HttpFailures
RequestTypes == {str_GET, <<"p","o","s","t">>, <<"P","U","T">>}
OutputFormats == {str_dict, str_json, str_empty}

\* a client that was constructed with a server URL and an API token
ConfiguredClient ==
    [url |-> val_env_url, api_key |-> val_env_key,
     timeout |-> IntV(DefaultTimeout), ssl_verify |-> BoolV(TRUE)]
\* the environments a client is constructed in
ClientEnvironments ==
    {MkDict([EMBY_URL |-> u, EMBY_API_KEY |-> k, EMBY_TIMEOUT |-> t]) :
        u \in {Absent, StrV(str_empty), val_env_url},
        k \in {Absent, StrV(str_empty), val_env_key},
        t \in {Absent, StrV(<<"a","b","c">>)}}
\* one poll: the client is constructed, then asked for the sessions
Polls ==
    {[environ |-> e, dotenv |-> f, url |-> u, api_key |-> k, http |-> h] :
        e \in ClientEnvironments, f \in DotEnvFiles,
        u \in {Null, val_config_url}, k \in {Null, val_env_key},
        h \in {HttpResponse(200, <<"[","]">>, Return(ListV(<<>>))),
               HttpException("ConnectionError")}}
Terminations ==
    {[session_id |-> i, message |-> m, http_message |-> h1, http_stop |-> h2] :
        i \in {Null, StrV(str_empty), val_session_id},
        m \in {StrV(str_empty), StrV(<<"b","y","e">>)},
        h1 \in HttpOutcomes, h2 \in HttpOutcomes}

\* the raw users and libraries the bridge is handed: two that normalize, an
\* absent one (None: empty record) and one whose normalization raises
SecondUser == MkDict([Id |-> StrV(<<"u","2">>), Name |-> StrV(<<"B","o","b">>)])
NullPolicyUser == MkDict([Id |-> val_user_id, Policy |-> Null])
BridgeUsers == {MkDict([Id |-> val_user_id, Name |-> val_user_name]), SecondUser,
                Null, NullPolicyUser}
SecondLibrary == MkDict([ItemId |-> StrV(<<"i","2">>), CollectionType |-> StrV(str_tvshows)])
NullTypeLibrary == MkDict([ItemId |-> val_item_id, CollectionType |-> Null])
BridgeLibraries == {MkDict([ItemId |-> val_item_id, CollectionType |-> StrV(str_movies)]),
                    SecondLibrary, Null, NullTypeLibrary}
val_server_info == MkDict([ServerName |-> StrV(<<"E","m","b","y">>)])
val_metadata == MkDict([title |-> val_item_name])

\* what the standalone client's call does, per bridge method
Outcomes(name) ==
    CASE name \in {"get_server_info", "test_connection"}
           -> {Raise, Return(Null), Return(EmptyDict), Return(val_server_info),
               Return(ListV(<<val_server_info>>))}
      [] name = "get_current_activity"
           -> {Raise, Return(Null), Return(ListV(<<SampleSession>>)),
               Return(ListV(<<IdleSession, SampleSession, Null>>))}
      [] name = "get_metadata" -> {Raise, Return(Null), Return(SampleItem)}
      [] name = "get_user_info"
           -> {Raise, Return(Null), Return(MkDict([Id |-> val_user_id]))}
      [] name = "get_users"
           -> {Raise, Return(Null), Return(IntV(1))}
              \cup {Return(ListV(xs)) : xs \in SeqsUpTo(BridgeUsers, MaxRecords)}
              \cup {Return(MkDict([Items |-> ListV(xs)])) :
                      xs \in SeqsUpTo(BridgeUsers, MaxRecords)}
              \cup {Return(MkDict([Items |-> ListV(<<SecondUser>>),
                                   TotalRecordCount |-> IntV(1)]))}
      [] name = "get_libraries"
           -> {Raise, Return(Null), Return(IntV(1)), Return(ListV(<<>>)),
               Return(ListV(<<SecondLibrary>>))}
      [] name = "get_library_details"
           -> {Raise, Return(Null), Return(IntV(1))}
              \cup {Return(ListV(xs)) : xs \in SeqsUpTo(BridgeLibraries, MaxRecords)}
      [] OTHER -> {Return(Null)}
\* a call of a bridge method: the outcome of the standalone call, the outcome
\* of transform_metadata (get_metadata only) and the id the method is given
MethodCalls(name) ==
    {[name |-> name, outcome |-> o, transformed |-> t,
      id |-> CASE name = "get_metadata" -> val_item_id
               [] name = "get_user_info" -> val_user_id
               [] OTHER -> Null] :
        o \in Outcomes(name),
        t \in IF name = "get_metadata" THEN {Raise, Return(val_metadata)}
              ELSE {Return(Null)}}
BridgeCalls == UNION {MethodCalls(name) : name \in BridgeMethods \ {"get_current_activity"}}
\* the names looked up on PmsConnect: the bridge's methods, its attribute
\* emby_connect and a name neither class defines
PmsConnectNames == BridgeMethods \cup {"emby_connect", "get_history"}
PmsConnectCalls ==
    UNION {IF name \in {"get_users", "get_library_details"}
           THEN {c \in MethodCalls(name) :
                    c.outcome.kind = "return" /\ c.outcome.val.t = "list"
                      => Len(c.outcome.val.v) <= 1}
           ELSE MethodCalls(name) : name \in PmsConnectNames}

\* the records on the heap, each with the normalizer it is meant for
HeapRecords ==
    {[op |-> "transform_session_data", raw |-> SampleSession],
     [op |-> "transform_session_data", raw |-> IdleSession],
     [op |-> "transform_user_data", raw |-> SecondUser],
     [op |-> "transform_user_data", raw |-> NullPolicyUser],
     [op |-> "transform_library_data", raw |-> SecondLibrary]}
RecordIds == {"r1", "r2"}
\* the heap and, for every caller, the record it was handed
Concurrencies ==
    {[heap |-> h, handed |-> r] :
        h \in [RecordIds -> HeapRecords], r \in [1..MaxCallers -> RecordIds]}

Calls ==
    {[op |-> "transform_session_data", arg |-> x] : x \in RawSessions}
    \cup {[op |-> "transform_user_data", arg |-> x] : x \in RawUsers}
    \cup {[op |-> "transform_library_data", arg |-> x] : x \in RawLibraries}
    \cup {[op |-> "get_current_activity", arg |-> x] : x \in TransportOutcomes}
    \cup {[op |-> "bridge_get_current_activity", arg |-> x] : x \in TransportOutcomes}
    \cup {[op |-> "get_emby_config", arg |-> [environ |-> e, dotenv |-> f]] :
            e \in Environments, f \in DotEnvFiles}
    \cup {[op |-> "bridge_get_emby_config", arg |-> [environ |-> e, config |-> c]] :
            e \in Environments, c \in Configs}
    \cup {[op |-> "make_request",
           arg |-> [http |-> h, request_type |-> r, output_format |-> f,
                    return_response |-> b]] :
            h \in HttpOutcomes, r \in RequestTypes, f \in OutputFormats, b \in BOOLEAN}
    \cup {[op |-> "poll", arg |-> x] : x \in Polls}
    \cup {[op |-> "terminate_session", arg |-> x] : x \in Terminations}
    \cup {[op |-> "bridge", arg |-> x] : x \in BridgeCalls}
    \cup {[op |-> "pms_connect", arg |-> x] : x \in PmsConnectCalls}
    \cup {[op |-> "concurrent", arg |-> x] : x \in Concurrencies}

----------------------------------------------------------------------------
(* The state machine: a caller holds a call (op, arg) that has not run yet   *)
(* (ret = Pending); the call runs and leaves its outcome in ret.  A caller   *)
(* of a normalizer may keep the outcome (prev) and normalize the same raw    *)
(* record once more, as every poll does; the clock helpers.timestamp() reads *)
(* advances in between.  emby is the client the call is made on (None     *)
(* until a poll has constructed it), requests the HTTP requests sent so far, *)
(* heap and callers the raw records and the callers of the concurrent        *)
(* normalizer calls.                                                         *)

Init ==
    /\ \E c \in Calls : op = c.op /\ arg = c.arg
    /\ now \in 0..MaxClock
    /\ ret = Pending
    /\ prev = Pending
    /\ emby = IF op = "poll" THEN Null ELSE ConfiguredClient
    /\ requests = <<>>
    /\ heap = IF op = "concurrent" THEN arg.heap ELSE <<>>
    /\ callers = IF op = "concurrent"
                 THEN [c \in 1..MaxCallers |->
                          [record |-> arg.handed[c], pc |-> "called", out |-> Pending]]
                 ELSE <<>>

TransformSessionData ==
    /\ op = "transform_session_data" /\ ret = Pending
    /\ ret' = transform_session_data(arg, now)
    /\ UNCHANGED <<op, arg, now, prev, emby, requests, heap, callers>>

TransformUserData ==
    /\ op = "transform_user_data" /\ ret = Pending
    /\ ret' = transform_user_data(arg, now)
    /\ UNCHANGED <<op, arg, now, prev, emby, requests, heap, callers>>

TransformLibraryData ==
    /\ op = "transform_library_data" /\ ret = Pending
    /\ ret' = transform_library_data(arg, now)
    /\ UNCHANGED <<op, arg, now, prev, emby, requests, heap, callers>>

GetCurrentActivity ==
    /\ op = "get_current_activity" /\ ret = Pending
    /\ ret' = get_current_activity(arg, now)
    /\ requests' = requests \o sent(emby, str_sessions_uri, str_GET, Null)
    /\ UNCHANGED <<op, arg, now, prev, emby, heap, callers>>

BridgeGetCurrentActivity ==
    /\ op = "bridge_get_current_activity" /\ ret = Pending
    /\ ret' = bridge_get_current_activity(arg, now)
    /\ requests' = requests \o standalone_sent(emby, "get_current_activity", Null)
    /\ UNCHANGED <<op, arg, now, prev, emby, heap, callers>>

GetEmbyConfig ==
    /\ op = "get_emby_config" /\ ret = Pending
    /\ ret' = get_emby_config(arg.environ, arg.dotenv)
    /\ UNCHANGED <<op, arg, now, prev, emby, requests, heap, callers>>

BridgeGetEmbyConfig ==
    /\ op = "bridge_get_emby_config" /\ ret = Pending
    /\ ret' = bridge_get_emby_config(arg.environ, arg.config)
    /\ UNCHANGED <<op, arg, now, prev, emby, requests, heap, callers>>

\* handler.make_request(uri='/Sessions', ...) on a configured client
MakeRequest ==
    /\ op = "make_request" /\ ret = Pending
    /\ ret' = make_request(arg.http, arg.request_type, arg.output_format,
                           arg.return_response)
    /\ requests' = requests \o sent(emby, str_sessions_uri, arg.request_type, Null)
    /\ UNCHANGED <<op, arg, now, prev, emby, heap, callers>>

\* EmbyConnect(url, api_key)
Construct ==
    /\ op = "poll" /\ emby = Null /\ ret = Pending
    /\ LET made == EmbyConnect_init(arg.url, arg.api_key, arg.environ, arg.dotenv)
       IN IF made.kind = "raise"
          THEN ret' = Raise /\ emby' = emby
          ELSE ret' = ret /\ emby' = made.val
    /\ UNCHANGED <<op, arg, now, prev, requests, heap, callers>>

\* EmbyConnect.get_sessions() on the client constructed
GetSessions ==
    /\ op = "poll" /\ emby # Null /\ ret = Pending
    /\ ret' = make_request(arg.http, str_GET, str_empty, FALSE)
    /\ requests' = requests \o sent(emby, str_sessions_uri, str_GET, Null)
    /\ UNCHANGED <<op, arg, now, prev, emby, heap, callers>>

TerminateSession ==
    /\ op = "terminate_session" /\ ret = Pending
    /\ LET done == terminate_session(emby, arg.session_id, arg.message,
                                     arg.http_message, arg.http_stop)
       IN ret' = done.ret /\ requests' = requests \o done.sent
    /\ UNCHANGED <<op, arg, now, prev, emby, heap, callers>>

BridgeGetServerInfo ==
    /\ op = "bridge" /\ arg.name = "get_server_info" /\ ret = Pending
    /\ ret' = bridge_get_server_info(arg.outcome)
    /\ requests' = requests \o standalone_sent(emby, arg.name, arg.id)
    /\ UNCHANGED <<op, arg, now, prev, emby, heap, callers>>

BridgeGetMetadata ==
    /\ op = "bridge" /\ arg.name = "get_metadata" /\ ret = Pending
    /\ ret' = bridge_get_metadata(arg.outcome, arg.transformed)
    /\ requests' = requests \o standalone_sent(emby, arg.name, arg.id)
    /\ UNCHANGED <<op, arg, now, prev, emby, heap, callers>>

BridgeGetUserInfo ==
    /\ op = "bridge" /\ arg.name = "get_user_info" /\ ret = Pending
    /\ ret' = bridge_get_user_info(arg.outcome)
    /\ requests' = requests \o standalone_sent(emby, arg.name, arg.id)
    /\ UNCHANGED <<op, arg, now, prev, emby, heap, callers>>

BridgeGetUsers ==
    /\ op = "bridge" /\ arg.name = "get_users" /\ ret = Pending
    /\ ret' = bridge_get_users(arg.outcome, now)
    /\ requests' = requests \o standalone_sent(emby, arg.name, arg.id)
    /\ UNCHANGED <<op, arg, now, prev, emby, heap, callers>>

BridgeGetLibraries ==
    /\ op = "bridge" /\ arg.name = "get_libraries" /\ ret = Pending
    /\ ret' = bridge_get_libraries(arg.outcome)
    /\ requests' = requests \o standalone_sent(emby, arg.name, arg.id)
    /\ UNCHANGED <<op, arg, now, prev, emby, heap, callers>>

BridgeGetLibraryDetails ==
    /\ op = "bridge" /\ arg.name = "get_library_details" /\ ret = Pending
    /\ ret' = bridge_get_library_details(arg.outcome, now)
    /\ requests' = requests \o standalone_sent(emby, arg.name, arg.id)
    /\ UNCHANGED <<op, arg, now, prev, emby, heap, callers>>

BridgeTestConnection ==
    /\ op = "bridge" /\ arg.name = "test_connection" /\ ret = Pending
    /\ ret' = bridge_test_connection(arg.outcome)
    /\ requests' = requests \o standalone_sent(emby, arg.name, arg.id)
    /\ UNCHANGED <<op, arg, now, prev, emby, heap, callers>>

\* PmsConnect().<name>(...)
PmsConnectCall ==
    /\ op = "pms_connect" /\ ret = Pending
    /\ LET done == pms_connect_call(emby, arg.name, arg, now)
       IN ret' = done.ret /\ requests' = requests \o done.sent
    /\ UNCHANGED <<op, arg, now, prev, emby, heap, callers>>

\* a caller enters its normalizer: the emptiness test
Enter(c) ==
    /\ op = "concurrent" /\ callers[c].pc = "called"
    /\ LET cell == heap[callers[c].record]
       IN callers' = [callers EXCEPT ![c] =
                        IF returns_empty(cell.op, cell.raw)
                        THEN [@ EXCEPT !.pc = "done", !.out = Return(EmptyDict)]
                        ELSE [@ EXCEPT !.pc = "body"]]
    /\ UNCHANGED <<op, arg, now, ret, prev, emby, requests, heap>>

\* the caller's normalizer builds its result and returns
Finish(c) ==
    /\ op = "concurrent" /\ callers[c].pc = "body"
    /\ LET cell == heap[callers[c].record]
       IN /\ callers' = [callers EXCEPT ![c].pc = "done",
                                        ![c].out = normalize(cell.op, cell.raw, now)]
          /\ heap' = [heap EXCEPT ![callers[c].record].raw =
                                     record_after(cell.op, cell.raw)]
    /\ UNCHANGED <<op, arg, now, ret, prev, emby, requests>>

\* the same raw record is handed to the same normalizer a second time
NormalizerOps ==
    {"transform_session_data", "transform_user_data", "transform_library_data"}
CallAgain ==
    /\ op \in NormalizerOps
    /\ ret # Pending /\ prev = Pending
    /\ prev' = ret
    /\ ret' = Pending
    /\ UNCHANGED <<op, arg, now, emby, requests, heap, callers>>

\* time passes between the two calls: helpers.timestamp() reads a later second
Tick ==
    /\ prev # Pending /\ ret = Pending
    /\ now < MaxClock
    /\ now' = now + 1
    /\ UNCHANGED <<op, arg, ret, prev, emby, requests, heap, callers>>

Next ==
    \/ TransformSessionData
    \/ TransformUserData
    \/ TransformLibraryData
    \/ GetCurrentActivity
    \/ BridgeGetCurrentActivity
    \/ GetEmbyConfig
    \/ BridgeGetEmbyConfig
    \/ MakeRequest
    \/ Construct
    \/ GetSessions
    \/ TerminateSession
    \/ BridgeGetServerInfo
    \/ BridgeGetMetadata
    \/ BridgeGetUserInfo
    \/ BridgeGetUsers
    \/ BridgeGetLibraries
    \/ BridgeGetLibraryDetails
    \/ BridgeTestConnection
    \/ PmsConnectCall
    \/ \E c \in 1..MaxCallers : Enter(c)
    \/ \E c \in 1..MaxCallers : Finish(c)
    \/ CallAgain
    \/ Tick

Spec == Init /\ [][Next]_vars

----------------------------------------------------------------------------
(* Properties *)

SessionCallDone == op = "transform_session_data" /\ ret # Pending
\* the call returned a populated canonical session
SessionNormalized ==
    SessionCallDone /\ ret.kind = "return" /\ ret.val # EmptyDict
\* the raw session is None, has no keys, lacks NowPlayingItem, or has it null or {}
NoPlayingItem(raw) ==
    \/ raw.t = "null"
    \/ DOMAIN raw.v = {}
    \/ "NowPlayingItem" \notin DOMAIN raw.v
    \/ raw.v["NowPlayingItem"].t = "null"
    \/ (raw.v["NowPlayingItem"].t = "dict" /\ DOMAIN raw.v["NowPlayingItem"].v = {})
\* the raw session's NowPlayingItem is a non-empty record
HasPlayingItem(raw) ==
    /\ raw.t = "dict"
    /\ "NowPlayingItem" \in DOMAIN raw.v
    /\ raw.v["NowPlayingItem"].t = "dict"
    /\ DOMAIN raw.v["NowPlayingItem"].v # {}
\* field k of the nested object o of the raw record, Absent when o or k is
\* missing or o is null
Nested(raw, o, k) ==
    IF o \in DOMAIN raw.v /\ raw.v[o].t = "dict" /\ k \in DOMAIN raw.v[o].v
    THEN raw.v[o].v[k] ELSE Absent

\* C1: transform_session_data returns {} for every raw session that is None,
\* has no keys, lacks NowPlayingItem or has it null or empty, and never
\* returns {} for a raw session whose NowPlayingItem is a non-empty record.
C1_EmptyIffNoPlayingItem ==
    SessionCallDone =>
        /\ NoPlayingItem(arg) => ret = Return(EmptyDict)
        /\ HasPlayingItem(arg) => ret # Return(EmptyDict)
C1_Witness ==
    /\ SessionCallDone
    /\ arg = WithKey(SampleSession, "NowPlayingItem", Null)
    /\ ret = Return(EmptyDict)

ActivityCallDone ==
    op \in {"get_current_activity", "bridge_get_current_activity"} /\ ret # Pending
\* the transport returned a list of raw sessions (arg is the transport outcome)
TransportList == arg.kind = "return" /\ arg.val.t = "list"
\* the transport call failed: it raised, or it returned no data
TransportFailed == arg.kind = "raise" \/ arg.val = Null
\* the raw session normalizes to a populated canonical session
Normalizes(raw) ==
    LET r == transform_session_data(raw, now)
    IN r.kind = "return" /\ r.val # EmptyDict
\* the sessions of the poll xs that have a non-empty NowPlayingItem
ActiveOf(xs) == SelectSeq(xs, HasPlayingItem)

\* C2: get_current_activity of embyconnect.py, on a list of raw sessions of
\* which K >= 1 have a non-empty NowPlayingItem (each of them normalizing),
\* returns exactly the K normalized sessions, and the count K.
C2_ActiveSessionsReturned ==
    (/\ op = "get_current_activity" /\ ret # Pending /\ TransportList
     /\ \A i \in DOMAIN arg.val.v : arg.val.v[i].t = "dict"
     /\ ActiveOf(arg.val.v) # <<>>
     /\ \A i \in DOMAIN ActiveOf(arg.val.v) : Normalizes(ActiveOf(arg.val.v)[i]))
    => LET active == ActiveOf(arg.val.v)
       IN ret = Return(MkDict([
             stream_count |-> StrV(IntToStr(Len(active))),
             sessions |-> ListV([i \in DOMAIN active |->
                                   transform_session_data(active[i], now).val])]))

\* C3: every value get_current_activity returns, in embyconnect.py and in the
\* bridge alike, is a record with a 'sessions' list and a 'stream_count' that
\* is the decimal string of the length of that list.
C3_ActivityShape ==
    ActivityCallDone =>
        /\ ret.kind = "return"
        /\ ret.val.t = "dict"
        /\ {"sessions", "stream_count"} \subseteq DOMAIN ret.val.v
        /\ ret.val.v["sessions"].t = "list"
        /\ ret.val.v["stream_count"] = StrV(IntToStr(Len(ret.val.v["sessions"].v)))

\* C4: when the transport call fails (it raises, times out or returns no
\* data), get_current_activity, of embyconnect.py and of the bridge, does not
\* raise and returns the empty activity result: the count zero and an empty
\* sessions list.
C4_TransportFailureDegrades ==
    (ActivityCallDone /\ TransportFailed) => ret = Return(empty_activity)
\* What does hold of both aggregators on a failed transport call: no exception
\* leaves the call and the sessions list returned is empty (embyconnect.py
\* returns exactly {stream_count: '0', sessions: []}).
FailureNeverPropagates ==
    (ActivityCallDone /\ TransportFailed) =>
        /\ ret.kind = "return"
        /\ ret.val.v["sessions"] = ListV(<<>>)
        /\ op = "get_current_activity" => ret = Return(empty_activity)

\* C5: in a poll over several raw sessions, an exception raised while
\* normalizing one session removes only that session: every other session of
\* the poll that normalizes is still in the result.
C5_OneFailureDropsOne ==
    (/\ ActivityCallDone /\ TransportList
     /\ \A i \in DOMAIN arg.val.v : arg.val.v[i].t = "dict"
     /\ \E i \in DOMAIN arg.val.v :
           transform_session_data(arg.val.v[i], now).kind = "raise")
    => /\ ret.kind = "return"
       /\ \A i \in DOMAIN arg.val.v :
             Normalizes(arg.val.v[i]) =>
                 \E j \in DOMAIN ret.val.v["sessions"].v :
                     ret.val.v["sessions"].v[j]
                         = transform_session_data(arg.val.v[i], now).val

\* C6: transform_session_data, transform_user_data and transform_library_data
\* never raise on partial input (any nested object or field missing or null):
\* each returns a record.
C6_NormalizersNeverRaise ==
    (/\ op \in {"transform_session_data", "transform_user_data",
                "transform_library_data"}
     /\ ret # Pending)
    => ret.kind = "return"

RequiredKeys ==
    {"session_key", "rating_key", "user_id", "user", "friendly_name", "player",
     "product", "platform", "machine_id", "ip_address", "media_type", "title",
     "state", "view_offset", "duration", "transcode_decision", "video_decision",
     "audio_decision"}

\* C7: for every raw session with a non-empty NowPlayingItem, whatever other
\* source fields are absent or null, the canonical session has every required
\* key and none of their values is None.
C7_RequiredKeysSet ==
    (SessionCallDone /\ HasPlayingItem(arg)) =>
        /\ ret.kind = "return"
        /\ RequiredKeys \subseteq DOMAIN ret.val.v
        /\ \A k \in RequiredKeys : ret.val.v[k] # Null

Decisions == {str_direct_play, str_copy, str_transcode}

TicksOf(x) == IF x.t = "int" THEN x.v ELSE 0

\* C9: view_offset and duration are the integer quotient of PositionTicks and
\* RunTimeTicks by 10,000, are never negative for any integer source value,
\* and are 0 when the source value is 0, null or absent.
C9_TicksToMs ==
    SessionNormalized =>
        LET position == TicksOf(Nested(arg, "PlayState", "PositionTicks"))
            runtime == TicksOf(Nested(arg, "NowPlayingItem", "RunTimeTicks"))
        IN /\ ret.val.v["view_offset"] = IntV(position \div TicksPerMs)
           /\ ret.val.v["duration"] = IntV(runtime \div TicksPerMs)
           /\ ret.val.v["view_offset"].v >= 0
           /\ ret.val.v["duration"].v >= 0

\* C10: for every raw session with a NowPlayingItem, the normalized state is
\* 'playing' or 'paused', and it is 'paused' exactly when PlayState.IsPaused is
\* true (an absent PlayState or IsPaused gives 'playing').
C10_StatePausedIffIsPaused ==
    SessionNormalized =>
        LET state == ret.val.v["state"]
        IN /\ state \in {StrV(str_playing), StrV(str_paused)}
           /\ state = StrV(str_paused)
                <=> Nested(arg, "PlayState", "IsPaused") = BoolV(TRUE)
C10_Witness ==
    /\ SessionNormalized
    /\ Nested(arg, "PlayState", "IsPaused") = BoolV(TRUE)
    /\ ret.val.v["state"] = StrV(str_paused)

\* the now-playing item of the raw session and the Type it is classified by
ItemOf(raw) == raw.v["NowPlayingItem"]
ItemType(raw) == Lower(Get(ItemOf(raw), "Type", StrV(str_empty)).v)
\* a text field is present when it holds a non-empty string, a number field
\* when it holds an integer
PresentText(x) == x.t = "str" /\ x.v # <<>>
PresentNumber(x) == x.t = "int"
\* the bare title: the item's Name, '' without one
BareTitle(item) == Get(item, "Name", StrV(str_empty))
\* n in decimal, zero-padded to two digits
TwoDigits(n) == IF n < 10 THEN <<"0">> \o NatToStr(n) ELSE NatToStr(n)

\* C11: full_title of an episode is '{series} - s{season}e{episode} - {title}',
\* both numbers zero-padded to two digits, when SeriesName, ParentIndexNumber,
\* IndexNumber and Name are all present, for every season and episode number
\* >= 0; it is '{series} - {title}' when only series and title are present,
\* and the bare title otherwise.
C11_EpisodeFullTitle ==
    (SessionNormalized /\ ItemType(arg) = str_episode) =>
        LET series == Get0(ItemOf(arg), "SeriesName")
            season == Get0(ItemOf(arg), "ParentIndexNumber")
            episode == Get0(ItemOf(arg), "IndexNumber")
            title == Get0(ItemOf(arg), "Name")
            full_title == ret.val.v["full_title"]
        IN IF /\ PresentText(series) /\ PresentText(title)
              /\ PresentNumber(season) /\ PresentNumber(episode)
              /\ season.v >= 0 /\ episode.v >= 0
           THEN full_title = StrV(series.v \o <<" ", "-", " ", "s">> \o TwoDigits(season.v)
                                  \o <<"e">> \o TwoDigits(episode.v)
                                  \o <<" ", "-", " ">> \o title.v)
           ELSE IF PresentText(series) /\ PresentText(title)
           THEN full_title = StrV(series.v \o <<" ", "-", " ">> \o title.v)
           ELSE full_title = BareTitle(ItemOf(arg))

\* the text an absent, null or empty field contributes to a formatted title
TextOf(x) == IF PresentText(x) THEN x.v ELSE <<>>

\* C12 as stated: a movie's full_title is '{title} ({year})' whenever
\* ProductionYear is present and the bare title otherwise; a track's is
\* '{artist} - {track}' whenever AlbumArtist is present and the bare track
\* name otherwise; every other item type gives the bare Name.
C12_YearOrArtistSuffices ==
    (SessionNormalized /\ ItemType(arg) # str_episode) =>
        LET title == Get0(ItemOf(arg), "Name")
            year == Get0(ItemOf(arg), "ProductionYear")
            artist == Get0(ItemOf(arg), "AlbumArtist")
            full_title == ret.val.v["full_title"]
        IN IF ItemType(arg) = str_movie /\ PresentNumber(year)
           THEN full_title = StrV(TextOf(title) \o <<" ", "(">> \o IntToStr(year.v)
                                  \o <<")">>)
           ELSE IF ItemType(arg) = str_track /\ PresentText(artist)
           THEN full_title = StrV(artist.v \o <<" ", "-", " ">> \o TextOf(title))
           ELSE full_title = BareTitle(ItemOf(arg))

\* C12 (amended): a movie's full_title is '{title} ({year})' whenever Name is
\* a non-empty string and ProductionYear a non-zero number, and the bare Name
\* otherwise; a track's is '{artist} - {track}' whenever AlbumArtist and Name
\* are both non-empty strings, and the bare Name otherwise; every other item
\* type, matched case-insensitively, gives the bare Name.
C12_NonEpisodeFullTitle ==
    (SessionNormalized /\ ItemType(arg) # str_episode) =>
        LET title == Get0(ItemOf(arg), "Name")
            year == Get0(ItemOf(arg), "ProductionYear")
            artist == Get0(ItemOf(arg), "AlbumArtist")
            full_title == ret.val.v["full_title"]
        IN IF /\ ItemType(arg) = str_movie /\ PresentText(title)
              /\ PresentNumber(year) /\ year.v # 0
           THEN full_title = StrV(title.v \o <<" ", "(">> \o IntToStr(year.v) \o <<")">>)
           ELSE IF ItemType(arg) = str_track /\ PresentText(artist) /\ PresentText(title)
           THEN full_title = StrV(artist.v \o <<" ", "-", " ">> \o title.v)
           ELSE full_title = BareTitle(ItemOf(arg))
\* a movie with a year and no Name has been normalized to an empty full_title
C12_Witness ==
    /\ SessionNormalized
    /\ ItemType(arg) = str_movie
    /\ Get0(ItemOf(arg), "ProductionYear") = val_year
    /\ "Name" \notin DOMAIN ItemOf(arg).v
    /\ ret.val.v["full_title"] = StrV(str_empty)

\* the MediaStreams list of the raw session's item, and the stream tests
StreamsOf(raw) == Get(ItemOf(raw), "MediaStreams", ListV(<<>>)).v
IsVideo(ms) == Get0(ms, "Type") = StrV(str_Video)
IsDefaultAudio(ms) ==
    Get0(ms, "Type") = StrV(str_Audio) /\ Get0(ms, "IsDefault") = BoolV(TRUE)
\* entry i is the first entry of xs among the indices I
IsFirst(i, I) == i \in I /\ \A j \in I : i <= j

\* C13: the video fields come from the first MediaStreams entry of Type Video,
\* the audio fields from the first entry of Type Audio whose IsDefault flag is
\* set; with no such entry the fields take their empty defaults.
C13_StreamElection ==
    SessionNormalized =>
        LET xs == StreamsOf(arg)
            videos == {i \in DOMAIN xs : IsVideo(xs[i])}
            audios == {i \in DOMAIN xs : IsDefaultAudio(xs[i])}
            out == ret.val.v
        IN /\ \A i \in DOMAIN xs : IsFirst(i, videos) =>
                  out["video_codec"] = Get(xs[i], "Codec", StrV(str_empty))
           /\ videos = {} => out["video_codec"] = StrV(str_empty)
           /\ \A i \in DOMAIN xs : IsFirst(i, audios) =>
                  /\ out["audio_codec"] = Get(xs[i], "Codec", StrV(str_empty))
                  /\ out["audio_language"] = Get(xs[i], "Language", StrV(str_empty))
           /\ audios = {} =>
                  /\ out["audio_codec"] = StrV(str_empty)
                  /\ out["audio_language"] = StrV(str_empty)
\* a non-default audio stream precedes two default ones and the first default
\* one has been elected
C13_Witness ==
    /\ SessionNormalized
    /\ StreamsOf(arg) = <<OtherAudio, SecondAudio, SampleAudio>>
    /\ ret.val.v["audio_codec"] = SecondAudio.v["Codec"]
    /\ ret.val.v["video_codec"] = StrV(str_empty)

\* C14: the elected subtitle stream is the entry of Type Subtitle whose Index
\* equals PlayState.SubtitleStreamIndex, and no subtitle stream is elected
\* (subtitle_codec and subtitle_language empty, subtitle_forced 0) whenever
\* SubtitleStreamIndex is negative, null or absent, whatever Index values the
\* streams carry.
C14_SubtitleElection ==
    SessionNormalized =>
        LET xs == StreamsOf(arg)
            index == Nested(arg, "PlayState", "SubtitleStreamIndex")
            subtitles == {i \in DOMAIN xs :
                            /\ Get0(xs[i], "Type") = StrV(str_Subtitle)
                            /\ Get0(xs[i], "Index") = index}
            out == ret.val.v
        IN IF index.t = "int" /\ index.v >= 0 /\ subtitles # {}
           THEN \A i \in DOMAIN xs : IsFirst(i, subtitles) =>
                   /\ out["subtitle_codec"] = Get(xs[i], "Codec", StrV(str_empty))
                   /\ out["subtitle_language"] = Get(xs[i], "Language", StrV(str_empty))
           ELSE /\ out["subtitle_codec"] = StrV(str_empty)
                /\ out["subtitle_language"] = StrV(str_empty)
                /\ out["subtitle_forced"] = IntV(0)

MediaTypes == {str_movie, str_episode, str_track, str_photo, str_live, str_clip}

\* C15: media_type is computed from NowPlayingItem.Type compared
\* case-insensitively: episode, movie, track and photo give themselves,
\* channel or program gives live, every other or absent type gives clip; the
\* result is always one of movie, episode, track, photo, live, clip.
C15_MediaType ==
    SessionNormalized =>
        LET type == ItemType(arg)
            media_type == ret.val.v["media_type"]
        IN /\ media_type.t = "str" /\ media_type.v \in MediaTypes
           /\ media_type.v =
                (IF type \in {str_episode, str_movie, str_track, str_photo} THEN type
                 ELSE IF type \in {str_channel, str_program} THEN str_live
                 ELSE str_clip)
\* a Type spelled in capitals has been classified
C15_Witness ==
    /\ SessionNormalized
    /\ Get0(ItemOf(arg), "Type") = StrV(<<"E","P","I","S","O","D","E">>)
    /\ ret.val.v["media_type"] = StrV(str_episode)

StreamDecisionKeys ==
    {"video_decision", "audio_decision", "stream_video_decision", "stream_audio_decision"}

\* C16: video_decision and audio_decision and their stream_* counterparts are
\* 'direct play' exactly when PlayState.PlayMethod is DirectPlay and 'copy'
\* for every other or absent value; they are never 'transcode', so a session
\* whose transcode_decision is 'transcode' reports video_decision 'copy'.
C16_StreamDecisions ==
    SessionNormalized =>
        LET play_method == Nested(arg, "PlayState", "PlayMethod")
            out == ret.val.v
        IN /\ \A k \in StreamDecisionKeys :
                 /\ out[k] \in {StrV(str_direct_play), StrV(str_copy)}
                 /\ out[k] = StrV(str_direct_play) <=> play_method = StrV(str_DirectPlay)
           /\ out["transcode_decision"] = StrV(str_transcode) =>
                 out["video_decision"] = StrV(str_copy)
\* a transcoding session has been reported with video_decision 'copy'
C16_Witness ==
    /\ SessionNormalized
    /\ Nested(arg, "PlayState", "PlayMethod") = StrV(val_Transcode)
    /\ ret.val.v["transcode_decision"] = StrV(str_transcode)
    /\ ret.val.v["video_decision"] = StrV(str_copy)

\* C17: normalizing the same raw record twice, at any two moments, yields
\* identical canonical records: the output depends on the raw record only.
C17_Idempotent ==
    (op \in NormalizerOps /\ prev # Pending /\ ret # Pending) => ret = prev

LibraryCallDone == op = "transform_library_data" /\ ret # Pending
SectionTypes == {str_movie, str_show, str_artist, str_photo, str_mixed}

\* C18: section_type is a case-insensitive lookup of CollectionType: 'movies'
\* gives movie, 'tvshows' gives show, every unmapped string and an absent or
\* null CollectionType give mixed; for every raw library the result is one of
\* movie, show, artist, photo, mixed.  (Stated for the libraries whose other
\* fields are well formed.)
C18_SectionType ==
    (/\ LibraryCallDone /\ Truthy(arg)
     /\ Get(arg, "Locations", ListV(<<>>)).t = "list") =>
        LET collection_type == Get0(arg, "CollectionType")
            type == IF collection_type.t = "str" THEN Lower(collection_type.v) ELSE <<>>
        IN /\ ret.kind = "return"
           /\ ret.val.v["section_type"].v \in SectionTypes
           /\ type = str_movies => ret.val.v["section_type"] = StrV(str_movie)
           /\ type = str_tvshows => ret.val.v["section_type"] = StrV(str_show)
           /\ type \notin {str_movies, str_tvshows, str_music, str_photos, str_books,
                            str_homevideos, str_musicvideos}
                 => ret.val.v["section_type"] = StrV(str_mixed)

UserCallDone == op = "transform_user_data" /\ ret # Pending
UserNormalized == UserCallDone /\ ret.kind = "return" /\ ret.val # EmptyDict

\* C19: for every non-empty raw user, is_admin and is_active are each 0 or 1,
\* is_admin is 1 exactly when Policy.IsAdministrator is true, is_active is 1
\* exactly when Policy.IsDisabled is not true (an absent Policy counts as
\* empty), is_home_user is always 1 and allow_guest always 0.
C19_UserFlags ==
    UserNormalized =>
        LET out == ret.val.v
        IN /\ out["is_admin"] \in {IntV(0), IntV(1)}
           /\ out["is_active"] \in {IntV(0), IntV(1)}
           /\ out["is_admin"] = IntV(1)
                <=> Nested(arg, "Policy", "IsAdministrator") = BoolV(TRUE)
           /\ out["is_active"] = IntV(1)
                <=> Nested(arg, "Policy", "IsDisabled") # BoolV(TRUE)
           /\ out["is_home_user"] = IntV(1)
           /\ out["allow_guest"] = IntV(0)
\* a disabled administrator has been normalized
C19_Witness ==
    /\ UserNormalized
    /\ Nested(arg, "Policy", "IsAdministrator") = BoolV(TRUE)
    /\ Nested(arg, "Policy", "IsDisabled") = BoolV(TRUE)
    /\ ret.val.v["is_admin"] = IntV(1)
    /\ ret.val.v["is_active"] = IntV(0)

C21_AddressAndPlatform ==
    SessionNormalized =>
        LET remote == Get0(arg, "RemoteEndPoint")
            client == Get(arg, "Client", StrV(str_empty))
            ip == ret.val.v["ip_address"]
        IN /\ ip.t = "str"
           /\ IF PresentText(remote)
              THEN /\ Len(ip.v) <= Len(remote.v)
                   /\ \A i \in DOMAIN ip.v : ip.v[i] = remote.v[i] /\ ip.v[i] # ":"
                   /\ Len(ip.v) < Len(remote.v) => remote.v[Len(ip.v) + 1] = ":"
              ELSE ip.v = <<>>
           /\ ret.val.v["platform"]
                = StrV(Lower(SelectSeq(client.v, LAMBDA c : c # " ")))
\* an endpoint with a port and a client name with capitals and spaces have
\* been normalized
C21_Witness ==
    /\ SessionNormalized
    /\ Get0(arg, "RemoteEndPoint") = val_endpoint
    /\ Get0(arg, "Client") = val_client
    /\ ret.val.v["ip_address"] = val_endpoint_bare
    /\ ret.val.v["platform"] = StrV(<<"e","m","b","y","w","e","b">>)

BridgeConfigDone == op = "bridge_get_emby_config" /\ ret # Pending
SettingKeys == {"server_url", "api_key", "timeout", "verify_ssl"}

\* C28: whenever EMBY_URL or EMBY_SERVER_URL is set, after _get_emby_config
\* the bridge's server_url is that value (EMBY_URL preferred) and api_key is
\* EMBY_API_KEY, for every value of the other environment variables; the
\* plexpy.CONFIG values are used only when neither URL variable is set; in
\* every path all four settings are assigned.
C28_EnvironmentFirst ==
    BridgeConfigDone =>
        LET url == Get0(arg.environ, "EMBY_URL")
            server_url == Get0(arg.environ, "EMBY_SERVER_URL")
            api_key == Get(arg.environ, "EMBY_API_KEY", StrV(str_empty))
        IN /\ ret.kind = "return"
           /\ DOMAIN ret.val.v = SettingKeys
           /\ PresentText(url) =>
                 (ret.val.v["server_url"] = url /\ ret.val.v["api_key"] = api_key)
           /\ (~PresentText(url) /\ PresentText(server_url)) =>
                 (ret.val.v["server_url"] = server_url /\ ret.val.v["api_key"] = api_key)
           /\ (~PresentText(url) /\ ~PresentText(server_url) /\ arg.config.t = "dict") =>
                 ret.val.v["server_url"]
                   = PyOr(arg.config.v["EMBY_SERVER_URL"], StrV(str_empty))

EnvConfigDone == op = "get_emby_config" /\ ret # Pending

\* C30: for every process environment in which EMBY_URL is set,
\* env_config.get_emby_config and the bridge's _get_emby_config derive the
\* same url, api key, timeout and TLS-verification setting.
C30_LoadersAgree ==
    EnvConfigDone =>
        LET environ == load_env_file(arg.environ, arg.dotenv)
            bridge == bridge_get_emby_config(environ, Null)
        IN PresentText(Get0(environ, "EMBY_URL")) =>
             /\ ret.kind = "return"
             /\ ret.val.v["url"] = bridge.val.v["server_url"]
             /\ ret.val.v["api_key"] = bridge.val.v["api_key"]
             /\ ret.val.v["timeout"] = bridge.val.v["timeout"]
             /\ ret.val.v["ssl_verify"] = bridge.val.v["verify_ssl"]

\* C22: no HTTP request is ever issued by a client whose server URL or API
\* token is empty: the configuration is validated for presence when the
\* client is constructed, so a client that was constructed has both.
C22_ConfigurationValidated ==
    /\ (op = "poll" /\ emby # Null) => (Truthy(emby.url) /\ Truthy(emby.api_key))
    /\ \A i \in DOMAIN requests :
          /\ Truthy(emby.url) /\ Truthy(emby.api_key)
          /\ requests[i].token # StrV(str_empty)

MakeRequestDone == op = "make_request" /\ ret # Pending
RequestSent == Upper(arg.request_type) \in {str_GET, str_POST}
IsSuccess(http) == http.kind = "response" /\ http.status_code \in 200..299
\* another failed HTTP call for which the same make_request returns the same value
SameValueFailures ==
    {h \in HttpOutcomes :
        /\ ~IsSuccess(h) /\ h # arg.http
        /\ make_request(h, arg.request_type, arg.output_format, arg.return_response)
             = ret}

\* C23: make_request never raises; every 2xx response yields the decoded
\* body; every non-2xx response, timeout, connection error or other error is
\* returned as a failure value that keeps these cases distinguishable (status
\* code and body for HTTP failures, the kind of error for network failures).
C23_FailureValues ==
    (MakeRequestDone /\ RequestSent) =>
        /\ ret.kind = "return"
        /\ (/\ IsSuccess(arg.http) /\ arg.http.json.kind = "return"
            /\ ~arg.return_response /\ arg.output_format = str_dict)
              => ret.val = arg.http.json.val
        /\ (~IsSuccess(arg.http) /\ ~arg.return_response) => SameValueFailures = {}

TerminateDone == op = "terminate_session" /\ ret # Pending
MessageSucceeded ==
    arg.http_message.kind = "response" /\ arg.http_message.status_code < 400

\* C26: terminate_session with an empty session_id returns False and issues
\* no request; with a non-empty session_id it issues exactly two POSTs in
\* order, the Message request and then the Playing/Stop request, whether or
\* not the message request succeeded, and returns the success of the message
\* request only (False when it produced no response).
C26_TerminateSession ==
    TerminateDone =>
        IF arg.session_id \in {Null, StrV(str_empty)}
        THEN ret = Return(BoolV(FALSE)) /\ requests = <<>>
        ELSE /\ Len(requests) = 2
             /\ requests[1].method = str_POST /\ requests[2].method = str_POST
             /\ requests[1].url = <<"h","t","t","p",":","/","/","h","/","S","e","s","s","i","o","n","s","/","s","1","/","M","e","s","s","a","g","e">>
             /\ requests[2].url = <<"h","t","t","p",":","/","/","h","/","S","e","s","s","i","o","n","s","/","s","1","/","P","l","a","y","i","n","g","/","S","t","o","p">>
             /\ ret = Return(BoolV(MessageSucceeded))
\* a termination whose message request got no response: the stop was sent
C26_Witness ==
    /\ TerminateDone /\ arg.session_id = val_session_id
    /\ arg.http_message.kind = "exception"
    /\ Len(requests) = 2 /\ ret = Return(BoolV(FALSE))

PmsConnectDone == op = "pms_connect" /\ ret # Pending

BridgeDone == op = "bridge" /\ ret # Pending
GetUsersDone == BridgeDone /\ arg.name = "get_users"
ItemsReturned ==
    /\ arg.outcome.kind = "return" /\ arg.outcome.val.t = "dict"
    /\ "Items" \in DOMAIN arg.outcome.val.v

\* C27: when the provider's user query returns {Items: [u1, ..., un]}, the
\* bridge's get_users returns the n normalized users in the same order,
\* dropping none; it returns [] only when the provider returned no users or
\* the call failed.
C27_UsersOfItems ==
    /\ (GetUsersDone /\ ItemsReturned) =>
          LET items == arg.outcome.val.v["Items"].v
          IN /\ ret.kind = "return" /\ ret.val.t = "list"
             /\ Len(ret.val.v) = Len(items)
             /\ \A i \in DOMAIN items :
                   Return(ret.val.v[i]) = transform_user_data(items[i], now)
    /\ (GetUsersDone /\ ret = Return(ListV(<<>>))) =>
          \/ arg.outcome.kind = "raise"
          \/ ~Truthy(arg.outcome.val)
          \/ arg.outcome.val.t # "dict" /\ arg.outcome.val.t # "list"
          \/ ItemsReturned /\ arg.outcome.val.v["Items"].v = <<>>
          \/ arg.outcome.val.t = "list"
               /\ \A i \in DOMAIN arg.outcome.val.v :
                     arg.outcome.val.v[i] \in {Null, NullPolicyUser}

\* the empty value of a bridge method
EmptyValue(name) ==
    CASE name \in {"get_server_info", "get_metadata", "get_user_info"} -> Null
      [] name = "get_current_activity" -> MkDict([sessions |-> ListV(<<>>)])
      [] name \in {"get_users", "get_libraries", "get_library_details"} -> ListV(<<>>)
      [] name = "test_connection" -> BoolV(FALSE)
\* of the raw records xs, those whose normalization at this clock returns a
\* record that is not empty, normalized, in the order of xs
KeptUsers(xs) ==
    LET normalizes(x) == LET n == transform_user_data(x, now)
                         IN n.kind = "return" /\ n.val # EmptyDict
        kept == SelectSeq(xs, normalizes)
    IN [i \in DOMAIN kept |-> transform_user_data(kept[i], now).val]
KeptLibraries(xs) ==
    LET normalizes(x) == LET n == transform_library_data(x, now)
                         IN n.kind = "return" /\ n.val # EmptyDict
        kept == SelectSeq(xs, normalizes)
    IN [i \in DOMAIN kept |-> transform_library_data(kept[i], now).val]
KeptSessions(xs) ==
    LET normalizes(x) == LET n == transform_session_data(x, now)
                         IN n.kind = "return" /\ n.val # EmptyDict
        kept == SelectSeq(xs, normalizes)
    IN [i \in DOMAIN kept |-> transform_session_data(kept[i], now).val]
ListReturned(outcome) == outcome.kind = "return" /\ outcome.val.t = "list"

\* C29: no query method of the bridge EmbyConnect propagates an exception
\* raised by the underlying client: each returns its empty value (None,
\* {'sessions': []}, [] or False) instead, and in the list-returning methods a
\* record whose normalization raises or yields an empty record is skipped
\* while the rest are kept in order.
C29_BridgeNeverRaises ==
    /\ BridgeDone =>
          /\ ret.kind = "return"
          /\ arg.outcome.kind = "raise" => ret.val = EmptyValue(arg.name)
          /\ (arg.name = "get_metadata" /\ arg.transformed.kind = "raise")
                => ret.val = EmptyValue(arg.name)
          /\ (arg.name = "get_users" /\ ListReturned(arg.outcome))
                => ret.val = ListV(KeptUsers(arg.outcome.val.v))
          /\ (arg.name = "get_library_details" /\ ListReturned(arg.outcome))
                => ret.val = ListV(KeptLibraries(arg.outcome.val.v))
    /\ (op = "bridge_get_current_activity" /\ ret # Pending) =>
          /\ ret.kind = "return"
          /\ arg.kind = "raise" => ret.val = EmptyValue("get_current_activity")
          /\ ListReturned(arg)
                => ret.val = MkDict([sessions |-> ListV(KeptSessions(arg.val.v))])
\* get_users skipped the user in the middle, whose normalization raises
C29_Witness ==
    /\ GetUsersDone
    /\ ListReturned(arg.outcome) /\ Len(arg.outcome.val.v) = 3
    /\ arg.outcome.val.v[2] = NullPolicyUser
    /\ Len(ret.val.v) = 2
    /\ ret.val.v[1] # ret.val.v[2]

\* what the caller's call returns when it runs alone on the record it was handed
Alone(c) ==
    normalize(arg.heap[arg.handed[c]].op, arg.heap[arg.handed[c]].raw, now)

====
